---- MODULE Spec2Model ----
(***************************************************************************)
(* Batch-resolution engine of ups_priority.py and fedex_scraper.py:        *)
(* the worker pool of run_batch, the per-key attempt loop of process_zip,  *)
(* the pause/stop signals and the merge performed by write_output_file.    *)
(*                                                                         *)
(* A behaviour is one execution of the program (main: one run_batch); the  *)
(* output files left by earlier executions are part of the initial state.  *)
(* A token or key is a sequence of one-character strings.  A table (the    *)
(* rows of an output file, or results_rows) is a sequence of records.      *)
(***************************************************************************)
EXTENDS Integers, Sequences, FiniteSets, TLC

\* ---------------------------------------------------------------- bounds
\* number of raw tokens of RawPool that input files are made of
NumTokens == 2
\* longest input file (rows)
MaxZips == 2
\* distinct values of the wall clock second read by ensure_unique_output_path
MaxStamp == 1
\* cap on session_version (transient failures in one behaviour)
MaxBumps == 3
\* number of samples the Poller takes inside its deadline
MaxSamples == 2
\* longest raw cell handed to normalize_zip on its own (characters)
MaxTokenLen == 6
\* longest body text of a page (characters)
MaxTextLen == 3
\* most lines of a CSV file handed to ensure_header_csv
MaxLines == 3
\* most representatives on one result page
MaxReps == 2

\* ------------------------------------------------------ program constants
MAX_WORKERS == 2
MAX_RETRIES == 3
MAINTENANCE_EVERY == 250
FEDEX_ATTEMPTS == 2
TRIES == 20
PAUSE_EVERY == 100

Workers == 1..MAX_WORKERS

\* ------------------------------------------------------------ normalize_zip
Digits == {"0", "1", "2", "3", "4", "5", "6", "7", "8", "9"}

\* variant: the decimal point counts as a digit
IsDigitOrDot(c) == c \in Digits \cup {"."}

IsDigit(c) == c \in Digits

IsSpace(c) == c = " "

RECURSIVE lstrip(_)
lstrip(s) == IF s # <<>> /\ IsSpace(Head(s)) THEN lstrip(Tail(s)) ELSE s

RECURSIVE rstrip(_)
rstrip(s) == IF s # <<>> /\ IsSpace(s[Len(s)]) THEN rstrip(SubSeq(s, 1, Len(s) - 1)) ELSE s

strip(s) == rstrip(lstrip(s))

\* variant: the numeric-coercion suffix is never recognised
MatchesDotZerosNever(s) == FALSE

\* re.fullmatch(r"\d+\.0+", s)
MatchesDotZeros(s) ==
    \E i \in 2..(Len(s) - 1) :
        /\ s[i] = "."
        /\ \A j \in 1..(i - 1) : IsDigit(s[j])
        /\ \A j \in (i + 1)..Len(s) : s[j] = "0"

\* s.split(".")[0]
BeforeDot(s) ==
    IF \E i \in 1..Len(s) : s[i] = "."
    THEN SubSeq(s, 1, (CHOOSE i \in 1..Len(s) : s[i] = "." /\ \A j \in 1..(i - 1) : s[j] # ".") - 1)
    ELSE s

RECURSIVE zfill(_, _)
zfill(s, width) == IF Len(s) < width THEN zfill(<<"0">> \o s, width) ELSE s

normalize_zip(val) ==
    LET s0 == strip(val)
        s1 == IF MatchesDotZeros(s0) THEN BeforeDot(s0) ELSE s0
        s2 == SelectSeq(s1, IsDigit)
    IN  IF s0 = <<>> THEN <<>>
        ELSE IF s2 = <<>> THEN <<>>
        ELSE IF Len(s2) < 5 THEN zfill(s2, 5)
        ELSE s2

\* ------------------------------------------------------------ input files
\* raw first-column cells an input workbook may hold
RawPool == << <<"5", "0", "1">>,
              <<"9", "0", "2", "1", "0">>,
              <<"5", "0", "1", ".", "0">>,
              <<"9", "9", "9", "9", "9">>,
              <<"n", "/", "a">> >>

RawTokens == {RawPool[i] : i \in 1..NumTokens}

InputFiles == UNION {[1..n -> RawTokens] : n \in 0..MaxZips}

RECURSIVE ExtractZips(_)
ExtractZips(cells) ==
    IF cells = <<>> THEN <<>>
    ELSE LET z == normalize_zip(Head(cells))
         IN  IF z # <<>> THEN <<z>> \o ExtractZips(Tail(cells))
             ELSE ExtractZips(Tail(cells))

read_input_rows(cells) == ExtractZips(cells)

\* ------------------------------------------------------------ tables
Range(t) == {t[i] : i \in DOMAIN t}

KeysOf(t) == {t[i].ZIP : i \in DOMAIN t}

RowsFor(t, z) == {i \in DOMAIN t : t[i].ZIP = z}

RECURSIVE PickRows(_, _, _)
PickRows(t, keep, i) ==
    IF i > Len(t) THEN <<>>
    ELSE IF i \in keep THEN <<t[i]>> \o PickRows(t, keep, i + 1)
    ELSE PickRows(t, keep, i + 1)

\* variant: keep="first"
drop_duplicates_first(t) ==
    PickRows(t, {i \in DOMAIN t : \A j \in DOMAIN t : j < i => t[j].ZIP # t[i].ZIP}, 1)

\* DataFrame.drop_duplicates(subset=["ZIP"], keep="last")
drop_duplicates(t) ==
    PickRows(t, {i \in DOMAIN t : \A j \in DOMAIN t : j > i => t[j].ZIP # t[i].ZIP}, 1)

NoFile == [exists |-> FALSE, rows |-> <<>>]

File(t) == [exists |-> TRUE, rows |-> t]

\* output paths: 0 is the path given to run_batch, s >= 1 the same name with
\* the timestamp s appended
Paths == 0..MaxStamp

OutputArg == 0


\* ------------------------------------------------------------ state
VARIABLES
    script,        \* which program runs: "ups" (ups_priority) or "fedex" (fedex_scraper)
    history,       \* earlier executions on this file system: their input keys and output path
    fs,            \* output files: Paths -> File
    stop,          \* stop_event.is_set()
    paused,        \* not pause_event.is_set()
    stats,         \* stats dict: processed, skipped, total
    session_version,
    processed_since_maintenance,
    results_rows,
    rb,            \* run_batch (main thread): pc, input read, keys dispatched, out_path
    work_queue,    \* keys submitted to the executor and not yet taken
    wk,            \* ups_priority.process_zip locals of each pool thread
    fx,            \* fedex_scraper.process_zip locals of each pool thread
    thread_local,  \* ups_priority.thread_local of each pool thread: its driver
    call,          \* frame of the single function call a specification studies
    stop_len       \* Len(results_rows) when stop was asserted, -1 while it is not

vars == <<script, history, fs, stop, paused, stats, session_version,
          processed_since_maintenance, results_rows, rb, work_queue, wk, fx,
          thread_local, call, stop_len>>

NoError == <<"", "", "">>

\* make_error: the literal arguments are stripped and shorter than 250 characters
make_error(error_step, error_type, message) == <<error_step, error_type, message>>

\* process_zip locals; only_timeouts holds while every pass of the loop body
\* made for this key so far ended in the TIMEOUT branch
IdleLocals ==
    [pc |-> "idle", zipcode |-> <<>>, attempts |-> 0, status_val |-> "",
     err |-> NoError, location_text |-> "", only_timeouts |-> TRUE]

PriorKey == normalize_zip(RawPool[1])

\* the row an earlier execution wrote for PriorKey
PriorRowUps ==
    [ZIP |-> PriorKey, LOCATION_TEXT |-> "loc", STATUS |-> "OK",
     ERROR_STEP |-> "", ERROR_TYPE |-> "", ERROR_MESSAGE |-> ""]

\* file systems left by 1 or 2 earlier executions with input <<PriorKey>>:
\* the first wrote the path itself, the second (the path existing) a stamped name
PriorExecutions(prior) ==
    {[files |-> [p \in Paths |-> IF p < n THEN File(<<prior>>) ELSE NoFile],
      log |-> [i \in 1..n |-> [input |-> <<PriorKey>>, out |-> i - 1]]] : n \in 1..2}

\* ------------------------------------------------------------ ups_priority
\* ensure_unique_output_path: p is OutputArg, stamp the clock second
ensure_unique_output_path(files, p, stamp) ==
    IF ~files[p].exists THEN p ELSE stamp

\* load_processed_zips -> read_input_rows -> _extract_zips over the ZIP column
load_processed_zips(file) ==
    IF ~file.exists THEN {}
    ELSE {normalize_zip(file.rows[i].ZIP) : i \in DOMAIN file.rows} \ {<<>>}

\* variant: the concatenation written as it is
write_output_file_concat(file, rows) ==
    LET existing == IF file.exists THEN file.rows ELSE <<>>
    IN  File(IF existing # <<>> THEN existing \o rows ELSE rows)

\* variant: the new rows concatenated before the existing ones
write_output_file_new_first(file, rows) ==
    LET existing == IF file.exists THEN file.rows ELSE <<>>
    IN  File(drop_duplicates(rows \o existing))

\* write_output_file: existing + new rows, drop_duplicates(keep="last")
write_output_file(file, rows) ==
    LET existing == IF file.exists THEN file.rows ELSE <<>>
        df == IF existing # <<>> THEN existing \o rows ELSE rows
    IN  File(drop_duplicates(df))

\* variant: the loop never looks at the page
PollLoopBlind(samples) == "TIMEOUT"

\* wait_for_result_or_terminal_state: early is detect_no_info_state at entry,
\* samples the page at each 250 ms iteration before the deadline
RECURSIVE PollLoop(_)
PollLoop(samples) ==
    IF samples = <<>> THEN "TIMEOUT"
    ELSE IF Head(samples).no_info THEN "NO_DATA"
    ELSE IF Head(samples).changed THEN "OK"
    ELSE PollLoop(Tail(samples))

wait_for_result_or_terminal_state(early, samples) ==
    IF early THEN "NO_DATA" ELSE PollLoop(samples)

UpsSample == [no_info : BOOLEAN, changed : BOOLEAN]

UpsSampleSeqs == UNION {[1..n -> UpsSample] : n \in 0..MaxSamples}

UpsPollResults ==
    {wait_for_result_or_terminal_state(e, s) : e \in BOOLEAN, s \in UpsSampleSeqs}

\* variant: run_batch goes on with an empty list of keys
no_zips_ignored(zips) == FALSE

\* if not zips: raise RuntimeError("No ZIP codes found in input.")
no_zips(zips) == zips = <<>>

\* run_batch up to the creation of the pool; pc "raised" and "nothing" are its
\* two early exits (no keys in the input, all keys already in the output)
RunBatchBegin ==
    /\ script = "ups"
    /\ rb.pc = "idle"
    /\ \E cells \in InputFiles, stamp \in 1..MaxStamp :
        LET zips == read_input_rows(cells)
            out_path == ensure_unique_output_path(fs, OutputArg, stamp)
            already == load_processed_zips(fs[out_path])
            todo == SelectSeq(zips, LAMBDA z : z \notin already)
            reset == [stats EXCEPT !.processed = 0, !.skipped = 0]
        IN  /\ results_rows' = <<>>
            /\ IF no_zips(zips)
               THEN /\ rb' = [rb EXCEPT !.pc = "raised", !.input = zips]
                    /\ stats' = reset
                    /\ UNCHANGED work_queue
               ELSE IF todo = <<>>
               THEN /\ rb' = [pc |-> "nothing", input |-> zips, zips |-> <<>>,
                              out_path |-> out_path]
                    /\ stats' = reset
                    /\ UNCHANGED work_queue
               ELSE /\ rb' = [pc |-> "pool", input |-> zips, zips |-> todo,
                              out_path |-> out_path]
                    /\ stats' = [reset EXCEPT !.total = Len(todo)]
                    /\ work_queue' = todo
    /\ UNCHANGED <<script, call, thread_local, fx, history, fs, stop, paused, session_version,
                   processed_since_maintenance, wk, stop_len>>

\* run_batch after the pool has been joined (the with-block waits for every
\* submitted key, also after the break on stop): write_output_file, which
\* raises when the file is locked
RunBatchEnd ==
    /\ script = "ups"
    /\ rb.pc = "pool"
    /\ work_queue = <<>>
    /\ \A w \in Workers : wk[w].pc = "idle"
    /\ \E locked \in BOOLEAN :
        IF locked
        THEN /\ rb' = [rb EXCEPT !.pc = "raised"]
             /\ UNCHANGED fs
        ELSE /\ rb' = [rb EXCEPT !.pc = "returned"]
             /\ fs' = [fs EXCEPT ![rb.out_path] = write_output_file(fs[rb.out_path], results_rows)]
    /\ UNCHANGED <<script, call, thread_local, fx, history, stop, paused, stats, session_version,
                   processed_since_maintenance, results_rows, work_queue, wk,
                   stop_len>>

\* variant: a thread is handed a work item while it runs another
worker_free_always(pc) == TRUE

\* ThreadPoolExecutor: a pool thread gets its next work item from the queue
\* only when the call it was running has returned
worker_free(pc) == pc = "idle"

\* a pool thread takes the next work item: process_zip up to the attempt loop
\* (idle threads of the pool with the same thread_local are interchangeable:
\* the lowest of them takes it)
Take(w) ==
    /\ script = "ups"
    /\ rb.pc = "pool"
    /\ worker_free(wk[w].pc)
    /\ \A v \in Workers : v < w => ~(wk[v].pc = "idle" /\ thread_local[v] = thread_local[w])
    /\ work_queue # <<>>
    /\ LET zipcode == normalize_zip(strip(Head(work_queue)))
       IN  wk' = [wk EXCEPT ![w] = [IdleLocals EXCEPT !.pc = "while", !.zipcode = zipcode,
                                                      !.status_val = "SKIPPED"]]
    /\ work_queue' = Tail(work_queue)
    /\ UNCHANGED <<script, call, thread_local, fx, history, fs, stop, paused, stats, session_version,
                   processed_since_maintenance, results_rows, rb, stop_len>>

\* variant: pause_event is not consulted
wait_if_paused_unpaused(is_paused, is_stopped) ==
    IF is_stopped THEN "break" ELSE "go"

\* wait_if_paused: "wait" keeps sleeping, "break" and "go" are its two results
wait_if_paused(is_paused, is_stopped) ==
    IF is_paused
    THEN IF is_stopped THEN "break" ELSE "wait"
    ELSE IF is_stopped THEN "break" ELSE "go"

\* get_browser on a thread's thread_local: driver is 0 while the thread has
\* none, else the ordinal of the driver the thread created
get_browser(tl) ==
    IF tl.driver # 0 THEN tl ELSE [tl EXCEPT !.driver = @ + 1]

\* maybe_maintenance, as <<processed_since_maintenance', session_version'>>
maybe_maintenance(psm, ver) ==
    IF psm >= MAINTENANCE_EVERY THEN <<0, ver + 1>> ELSE <<psm, ver>>

\* variant: the exception leaves process_zip
UnexpectedEscapes(l) == IdleLocals

\* variant: the handler continues the loop
UnexpectedRetry(l) ==
    [l EXCEPT !.status_val = "ERROR",
              !.only_timeouts = FALSE,
              !.err = make_error("UNEXPECTED", "EXCEPTION", "Unexpected error"),
              !.pc = "while"]

\* the outer handler of process_zip: except Exception
Unexpected(l) ==
    [l EXCEPT !.status_val = "ERROR",
              !.only_timeouts = FALSE,
              !.err = make_error("UNEXPECTED", "EXCEPTION", "Unexpected error"),
              !.pc = "except"]

\* an error is recorded and the loop continues
Transient(l, e) == [l EXCEPT !.err = e, !.pc = "while", !.only_timeouts = FALSE]

\* variant: the no-data page taken for a result page
OnNoDataAsOk(l) ==
    [l EXCEPT !.err = make_error("WAIT_RESULT", "NO_DATA", "page error text"),
              !.status_val = "OK",
              !.location_text = "",
              !.only_timeouts = FALSE,
              !.pc = "after_loop"]

\* variant: continue instead of break
OnNoDataRetry(l) ==
    [l EXCEPT !.err = make_error("WAIT_RESULT", "NO_DATA", "page error text"),
              !.status_val = "SKIPPED",
              !.location_text = "",
              !.only_timeouts = FALSE,
              !.pc = "while"]

\* the NO_DATA branch of the loop body
OnNoData(l) ==
    [l EXCEPT !.err = make_error("WAIT_RESULT", "NO_DATA", "page error text"),
              !.status_val = "SKIPPED",
              !.location_text = "",
              !.only_timeouts = FALSE,
              !.pc = "after_loop"]

\* variant: break instead of continue
OnTimeoutGiveUp(l) ==
    [l EXCEPT !.err = make_error("WAIT_RESULT", "RESULT_TIMEOUT",
                                 "Timed out waiting for results OR error state"),
              !.pc = "after_loop"]

\* the TIMEOUT branch of the loop body
OnTimeout(l) ==
    [l EXCEPT !.err = make_error("WAIT_RESULT", "RESULT_TIMEOUT",
                                 "Timed out waiting for results OR error state"),
              !.pc = "while"]

\* what one pass of the loop body runs into: pre is the pass up to the
\* submission, result_state the Poller's result, page what driver.page_source
\* and parse_results give after an OK
PassKind(pre, result_state, page) ==
    IF pre # "submitted" THEN pre
    ELSE IF result_state = "NO_DATA" THEN "NO_DATA"
    ELSE IF result_state = "TIMEOUT" THEN "RESULT_TIMEOUT"
    ELSE IF page = "raise" THEN "raise"
    ELSE IF page = "no_fields" THEN "PARSE_FAILED"
    ELSE "OK"

PassKinds ==
    {PassKind(pre, result_state, page) :
        pre \in {"offline", "raise", "load_failed", "no_input", "submitted"},
        result_state \in UpsPollResults, page \in {"raise", "no_fields", "fields"}}

\* variant: no bump after a parse failure
BumpsVersionNoParse(kind) == kind \in {"load_failed", "no_input", "RESULT_TIMEOUT"}

\* the passes that call bump_session_version
BumpsVersion(kind) == kind \in {"load_failed", "no_input", "RESULT_TIMEOUT", "PARSE_FAILED"}

\* the locals after one pass of the loop body
loop_body(l, kind) ==
    LET l1 == [l EXCEPT !.attempts = @ + 1]
    IN  CASE kind = "offline" ->
                Transient(l, make_error("OFFLINE", "NO_INTERNET",
                                        "Internet not available; paused and retrying."))
          [] kind = "raise" -> Unexpected(l1)
          [] kind = "load_failed" ->
                Transient(l1, make_error("LOAD_PAGE", "TIMEOUT", "Timeout / Site not responding"))
          [] kind = "no_input" ->
                Transient(l1, make_error("FIND_INPUT", "CAPTCHA_OR_BLOCKED",
                                         "ZIP input not found (captcha/block/DOM changed)."))
          [] kind = "NO_DATA" -> OnNoData(l1)
          [] kind = "RESULT_TIMEOUT" -> OnTimeout(l1)
          [] kind = "PARSE_FAILED" ->
                Transient(l1, make_error("PARSE", "PARSE_FAILED",
                                         "Result loaded but expected fields not found."))
          [] OTHER -> [l1 EXCEPT !.location_text = "loc", !.status_val = "OK",
                                 !.only_timeouts = FALSE, !.pc = "after_loop"]

\* the statements after the attempt loop, skipped when an exception was caught
AfterLoop(l) ==
    IF l.pc = "except" \/ l.status_val \in {"OK", "OK_WITH_IMAGE_ERROR"} THEN l
    ELSE [l EXCEPT !.status_val = "SKIPPED",
                   !.err = IF l.err[3] = "" THEN make_error("UNKNOWN", "UNKNOWN",
                                                            "Timeout / Site not responding")
                           ELSE l.err]

UpsRow(l) ==
    [ZIP |-> l.zipcode, LOCATION_TEXT |-> l.location_text, STATUS |-> l.status_val,
     ERROR_STEP |-> l.err[1], ERROR_TYPE |-> l.err[2], ERROR_MESSAGE |-> l.err[3]]

\* variant: a paused worker sleeps whatever stop_event says
loop_head_pause_first(attempts, is_paused, is_stopped) ==
    IF is_paused THEN "wait"
    ELSE IF attempts < MAX_RETRIES /\ ~is_stopped THEN "go"
    ELSE "break"

\* variant: the loop test without the retry budget
loop_head_no_budget(attempts, is_paused, is_stopped) ==
    IF ~is_stopped THEN wait_if_paused(is_paused, is_stopped) ELSE "break"

\* the loop test and wait_if_paused: "wait" while the worker sleeps in
\* wait_if_paused, "break" when the loop is left, "go" when a pass starts
loop_head(attempts, is_paused, is_stopped) ==
    IF attempts < MAX_RETRIES /\ ~is_stopped THEN wait_if_paused(is_paused, is_stopped)
    ELSE "break"

\* one iteration of the attempt loop: the loop test, wait_if_paused, and (on
\* "go") one pass of the body: is_internet_available, maybe_maintenance,
\* attempts += 1, get_browser, driver.get, fill and submit,
\* wait_for_result_or_terminal_state and the classification of its result.
\* When the loop is left by its test, the statements after the loop and the
\* append of the row follow in the same step: nothing shared is read between
Attempt(w) ==
    /\ script = "ups"
    /\ wk[w].pc = "while"
    /\ LET head == loop_head(wk[w].attempts, paused, stop)
           m == maybe_maintenance(processed_since_maintenance, session_version)
           left == AfterLoop([wk[w] EXCEPT !.pc = "after_loop"])
       IN  CASE head = "wait" ->
                    UNCHANGED <<wk, session_version, processed_since_maintenance,
                                results_rows, thread_local>>
             [] head = "break" ->
                    /\ results_rows' = Append(results_rows, UpsRow(left))
                    /\ wk' = [wk EXCEPT ![w] = [left EXCEPT !.pc = "record"]]
                    /\ UNCHANGED <<session_version, processed_since_maintenance,
                                   thread_local>>
             [] OTHER ->
                    /\ \E kind \in PassKinds :
                        /\ BumpsVersion(kind) => m[2] < MaxBumps
                        /\ wk' = [wk EXCEPT ![w] = loop_body(@, kind)]
                        /\ thread_local' \in
                                IF kind = "offline" THEN {thread_local}
                                ELSE IF kind = "raise"
                                THEN {thread_local, [thread_local EXCEPT ![w] = get_browser(@)]}
                                ELSE {[thread_local EXCEPT ![w] = get_browser(@)]}
                        /\ IF kind = "offline"
                           THEN UNCHANGED <<session_version, processed_since_maintenance>>
                           ELSE /\ processed_since_maintenance' = m[1]
                                /\ session_version' =
                                        IF BumpsVersion(kind) THEN m[2] + 1 ELSE m[2]
                    /\ UNCHANGED results_rows
    /\ UNCHANGED <<script, call, fx, history, fs, stop, paused, stats, rb, work_queue, stop_len>>

\* after a pass that left the loop by break or by an exception: the statements
\* after the loop, then the row is built and appended to results_rows
AppendRow(w) ==
    /\ script = "ups"
    /\ wk[w].pc \in {"after_loop", "except"}
    /\ LET l == AfterLoop(wk[w])
       IN  /\ results_rows' = Append(results_rows, UpsRow(l))
           /\ wk' = [wk EXCEPT ![w] = [l EXCEPT !.pc = "record"]]
    /\ UNCHANGED <<script, call, thread_local, fx, history, fs, stop, paused, stats, session_version,
                   processed_since_maintenance, rb, work_queue, stop_len>>

\* variant: a key that is not OK is counted as skipped only
record_processed_skipped_only(st, status_val) ==
    [st EXCEPT !.skipped = IF status_val # "OK" THEN @ + 1 ELSE @]

\* record_processed: the counters of stats after one key
record_processed(st, status_val) ==
    [st EXCEPT !.processed = @ + 1,
               !.skipped = IF status_val # "OK" THEN @ + 1 ELSE @]

\* record_processed(skipped=(status_val != "OK")); process_zip returns
RecordProcessed(w) ==
    /\ script = "ups"
    /\ wk[w].pc = "record"
    /\ stats' = record_processed(stats, wk[w].status_val)
    /\ processed_since_maintenance' = processed_since_maintenance + 1
    /\ wk' = [wk EXCEPT ![w] = IdleLocals]
    /\ UNCHANGED <<script, call, thread_local, fx, history, fs, stop, paused, session_version,
                   results_rows, rb, work_queue, stop_len>>

\* GUI: pause() clears pause_event (on_close destroys the window: no pause after stop)
Pause ==
    /\ script = "ups"
    /\ rb.pc = "pool"
    /\ ~paused
    /\ ~stop
    /\ paused' = TRUE
    /\ UNCHANGED <<script, call, thread_local, fx, history, fs, stop, stats, session_version,
                   processed_since_maintenance, results_rows, rb, work_queue, wk, stop_len>>

\* GUI: resume() sets pause_event
Resume ==
    /\ script = "ups"
    /\ rb.pc = "pool"
    /\ paused
    /\ paused' = FALSE
    /\ UNCHANGED <<script, call, thread_local, fx, history, fs, stop, stats, session_version,
                   processed_since_maintenance, results_rows, rb, work_queue, wk, stop_len>>

\* GUI: on_close sets stop_event, then pause_event
Stop ==
    /\ script = "ups"
    /\ rb.pc = "pool"
    /\ ~stop
    /\ stop' = TRUE
    /\ paused' = FALSE
    /\ stop_len' = Len(results_rows)
    /\ UNCHANGED <<script, call, thread_local, fx, history, fs, stats, session_version,
                   processed_since_maintenance, results_rows, rb, work_queue, wk>>

\* GUI: the first statement of on_close, stop_event.set(), pressed at any
\* moment of the batch, paused or not
OnCloseStop ==
    /\ script = "ups"
    /\ rb.pc = "pool"
    /\ ~stop
    /\ stop' = TRUE
    /\ stop_len' = Len(results_rows)
    /\ UNCHANGED <<script, call, thread_local, fx, history, fs, paused, stats, session_version,
                   processed_since_maintenance, results_rows, rb, work_queue, wk>>

\* GUI: the second statement of on_close, pause_event.set()
OnClosePause ==
    /\ script = "ups"
    /\ stop
    /\ paused
    /\ paused' = FALSE
    /\ UNCHANGED <<script, call, thread_local, fx, history, fs, stop, stats, session_version,
                   processed_since_maintenance, results_rows, rb, work_queue, wk, stop_len>>

\* ------------------------------------------------------------ fedex_scraper
STATUS_OK == "OK"
STATUS_NO_DATA == "NO_DATA"
STATUS_ERROR == "ERROR"
STATUS_TIMEOUT == "TIMEOUT"

\* read_input_rows / first_col_to_zips, with its drop of a non-numeric first value
fedex_read_input_rows(cells) ==
    LET vals == ExtractZips(cells)
    IN  IF vals # <<>> /\ ~(\A i \in DOMAIN vals[1] : IsDigit(vals[1][i])) THEN Tail(vals)
        ELSE vals

\* write_output_file: existing rows followed by the new ones
fedex_write_output_file(file, rows) ==
    LET existing == IF file.exists THEN file.rows ELSE <<>>
    IN  File(IF existing # <<>> THEN existing \o rows ELSE rows)

\* what one look at the page shows: the PDF map link, the hidden map URL, a
\* no-data marker, a body text that is non-empty and differs from prev_marker,
\* and whether clean_message leaves anything of that text
FedexSample ==
    [pdf : BOOLEAN, hidden : BOOLEAN, no_data : BOOLEAN, changed : BOOLEAN, cleaned : BOOLEAN]

FedexSampleSeqs == UNION {[1..n -> FedexSample] : n \in 0..MaxSamples}

FedexTimedOut == [status |-> STATUS_TIMEOUT, map_src |-> "", result_text |-> ""]

\* variant: the no-data marker is consulted first
FedexMarkersFailureFirst(s) ==
    IF s.no_data THEN [status |-> STATUS_NO_DATA, map_src |-> "", result_text |-> ""]
    ELSE IF s.pdf THEN [status |-> STATUS_OK, map_src |-> "pdf", result_text |-> "Success"]
    ELSE IF s.hidden THEN [status |-> STATUS_OK, map_src |-> "hidden", result_text |-> "Success"]
    ELSE [status |-> "", map_src |-> "", result_text |-> ""]

\* the three checks made on every look, "" when none of them returns
FedexMarkers(s) ==
    IF s.pdf THEN [status |-> STATUS_OK, map_src |-> "pdf", result_text |-> "Success"]
    ELSE IF s.hidden THEN [status |-> STATUS_OK, map_src |-> "hidden", result_text |-> "Success"]
    ELSE IF s.no_data THEN [status |-> STATUS_NO_DATA, map_src |-> "", result_text |-> ""]
    ELSE [status |-> "", map_src |-> "", result_text |-> ""]

RECURSIVE FedexPollLoop(_)
FedexPollLoop(samples) ==
    IF samples = <<>> THEN FedexTimedOut
    ELSE IF FedexMarkers(Head(samples)).status # "" THEN FedexMarkers(Head(samples))
    ELSE IF Head(samples).changed
         THEN [status |-> STATUS_OK, map_src |-> "",
               result_text |-> IF Head(samples).cleaned THEN "body" ELSE ""]
    ELSE FedexPollLoop(Tail(samples))

\* wait_fedex_result_or_terminal: quick is the look taken before the loop
wait_fedex_result_or_terminal(quick, samples) ==
    IF FedexMarkers(quick).status # "" THEN FedexMarkers(quick) ELSE FedexPollLoop(samples)

FedexPollResults ==
    {wait_fedex_result_or_terminal(q, s) :
        q \in {x \in FedexSample : ~x.changed /\ ~x.cleaned}, s \in FedexSampleSeqs}

\* the local state before the Poller has been called
FedexNoState == [status |-> "", map_src |-> "", result_text |-> ""]

FedexIdle ==
    [pc |-> "idle", zipcode |-> <<>>, attempts |-> 0, status |-> "", err |-> NoError,
     result_text |-> "", map_url |-> "", timeout_streak |-> 0, state |-> FedexNoState]

\* the row an earlier execution of fedex_scraper wrote for PriorKey
PriorRowFedex ==
    [ZIP |-> PriorKey, STATUS |-> STATUS_OK, ERROR_STEP |-> "", ERROR_TYPE |-> "",
     ERROR_MESSAGE |-> "", RESULT_TEXT |-> "Success", MAP_URL |-> "pdf"]

\* file systems left by 0 or 1 earlier execution of fedex_scraper
FedexPriorExecutions ==
    {[files |-> [p \in Paths |-> IF p < n THEN File(<<PriorRowFedex>>) ELSE NoFile],
      log |-> [i \in 1..n |-> [input |-> <<PriorKey>>, out |-> OutputArg]]] : n \in 0..1}

\* run_batch up to the creation of the pool
FedexRunBatchBegin ==
    /\ script = "fedex"
    /\ rb.pc = "idle"
    /\ stop' = FALSE
    /\ results_rows' = <<>>
    /\ \E cells \in InputFiles :
        LET zips == fedex_read_input_rows(cells)
        IN  IF no_zips(zips)
            THEN /\ rb' = [rb EXCEPT !.pc = "raised", !.input = zips]
                 /\ UNCHANGED <<stats, work_queue>>
            ELSE /\ rb' = [pc |-> "pool", input |-> zips, zips |-> zips,
                           out_path |-> OutputArg]
                 /\ stats' = [total |-> Len(zips), processed |-> 0, skipped |-> 0]
                 /\ work_queue' = zips
    /\ UNCHANGED <<script, call, thread_local, history, fs, paused, session_version,
                   processed_since_maintenance, wk, fx, stop_len>>

\* run_batch after the pool has been joined: write_output_file, which raises
\* when the file is locked
FedexRunBatchEnd ==
    /\ script = "fedex"
    /\ rb.pc = "pool"
    /\ work_queue = <<>>
    /\ \A w \in Workers : fx[w].pc = "idle"
    /\ \E locked \in BOOLEAN :
        IF locked
        THEN /\ rb' = [rb EXCEPT !.pc = "raised"]
             /\ UNCHANGED fs
        ELSE /\ rb' = [rb EXCEPT !.pc = "returned"]
             /\ fs' = [fs EXCEPT ![rb.out_path] =
                            fedex_write_output_file(fs[rb.out_path], results_rows)]
    /\ UNCHANGED <<script, call, thread_local, history, stop, paused, stats, session_version,
                   processed_since_maintenance, results_rows, work_queue, wk, fx,
                   stop_len>>

\* a pool thread takes the next work item: process_zip up to the attempt loop.
\* It returns at once when stop is set; an exception of build_driver leaves
\* process_zip through the finally block, before any row is built
FedexTake(w) ==
    /\ script = "fedex"
    /\ rb.pc = "pool"
    /\ worker_free(fx[w].pc)
    /\ \A v \in Workers : v < w => fx[v].pc # "idle"
    /\ work_queue # <<>>
    /\ work_queue' = Tail(work_queue)
    /\ \E built \in BOOLEAN :
        IF stop \/ ~built
        THEN UNCHANGED fx
        ELSE fx' = [fx EXCEPT ![w] = [FedexIdle EXCEPT !.pc = "while",
                                                      !.zipcode = normalize_zip(Head(work_queue)),
                                                      !.status = STATUS_ERROR]]
    /\ UNCHANGED <<script, call, thread_local, history, fs, stop, paused, stats, session_version,
                   processed_since_maintenance, results_rows, rb, wk, stop_len>>

\* the NO_DATA assignments of the loop body
FedexNoData(l) ==
    [l EXCEPT !.status = STATUS_NO_DATA,
              !.err = <<"WAIT_RESULT", "NO_DATA", "No transit map available for this ZIP code">>,
              !.result_text = "No results found"]

\* the TIMEOUT branch of the loop body: continue, after a cooldown at 3 in a row
FedexOnTimeout(l) ==
    [l EXCEPT !.timeout_streak = IF @ + 1 >= 3 THEN 0 ELSE @ + 1, !.pc = "while"]

\* what one pass of the loop body runs into: pre is the pass up to the
\* submission, state the Poller's result
FedexPasses ==
    {[pre |-> "raise"], [pre |-> "no_input"], [pre |-> "fill_failed"]}
        \cup {[pre |-> "submitted", state |-> s] : s \in FedexPollResults}

\* the locals after one pass of the loop body
fedex_loop_body(l, pass) ==
    LET l1 == [l EXCEPT !.attempts = @ + 1, !.pc = "after_loop"]
    IN  CASE pass.pre = "raise" ->
                [l1 EXCEPT !.err = <<"UNEXPECTED", "EXCEPTION", "exception text">>]
          [] pass.pre = "no_input" ->
                [l1 EXCEPT !.err = <<"FIND_INPUT", "NO_INPUT", "ZIP input not found">>]
          [] pass.pre = "fill_failed" ->
                [l1 EXCEPT !.err = <<"FILL_INPUT", "FAILED", "Could not enter ZIP">>]
          [] OTHER ->
                LET l2 == [l1 EXCEPT !.state = pass.state]
                IN  IF pass.state.status = STATUS_NO_DATA THEN FedexNoData(l2)
                    ELSE IF pass.state.status = STATUS_TIMEOUT THEN FedexOnTimeout(l2)
                    ELSE IF pass.state.map_src # ""
                         THEN [l2 EXCEPT !.map_url = pass.state.map_src,
                                         !.status = STATUS_OK,
                                         !.result_text = pass.state.result_text]
                    ELSE FedexNoData(l2)

\* while attempts < 2 and not stop_event.is_set(): one pass of the loop body
FedexAttempt(w) ==
    /\ script = "fedex"
    /\ fx[w].pc = "while"
    /\ IF fx[w].attempts < FEDEX_ATTEMPTS /\ ~stop
       THEN \E pass \in FedexPasses : fx' = [fx EXCEPT ![w] = fedex_loop_body(@, pass)]
       ELSE fx' = [fx EXCEPT ![w].pc = "after_loop"]
    /\ UNCHANGED <<script, call, thread_local, history, fs, stop, paused, stats, session_version,
                   processed_since_maintenance, results_rows, rb, work_queue, wk,
                   stop_len>>

\* variant: without the first of the two statements
FedexAfterLoopUnmarked(l) ==
    IF l.status = STATUS_OK /\ l.map_url = "" THEN FedexNoData(l) ELSE l

\* the two statements after the attempt loop
FedexAfterLoop(l) ==
    LET l1 == IF l.status \notin {STATUS_OK, STATUS_NO_DATA} /\ l.err[1] = ""
              THEN [l EXCEPT !.status = STATUS_TIMEOUT,
                             !.err = <<"WAIT_RESULT", "RESULT_TIMEOUT",
                                       "Timed out waiting for results">>]
              ELSE l
    IN  IF l1.status = STATUS_OK /\ l1.map_url = "" THEN FedexNoData(l1) ELSE l1

FedexRow(l) ==
    [ZIP |-> l.zipcode, STATUS |-> l.status, ERROR_STEP |-> l.err[1],
     ERROR_TYPE |-> l.err[2], ERROR_MESSAGE |-> l.err[3], RESULT_TEXT |-> l.result_text,
     MAP_URL |-> l.map_url]

\* build the row and append it to results_rows
FedexAppendRow(w) ==
    /\ script = "fedex"
    /\ fx[w].pc = "after_loop"
    /\ LET l == FedexAfterLoop(fx[w])
       IN  /\ results_rows' = Append(results_rows, FedexRow(l))
           /\ fx' = [fx EXCEPT ![w] = [l EXCEPT !.pc = "record"]]
    /\ UNCHANGED <<script, call, thread_local, history, fs, stop, paused, stats, session_version,
                   processed_since_maintenance, rb, work_queue, wk, stop_len>>

\* the stats update at the end of process_zip; process_zip returns
FedexRecord(w) ==
    /\ script = "fedex"
    /\ fx[w].pc = "record"
    /\ stats' = [stats EXCEPT !.processed = @ + 1,
                              !.skipped = IF fx[w].status # STATUS_OK THEN @ + 1 ELSE @]
    /\ fx' = [fx EXCEPT ![w] = FedexIdle]
    /\ UNCHANGED <<script, call, thread_local, history, fs, stop, paused, session_version,
                   processed_since_maintenance, results_rows, rb, work_queue, wk,
                   stop_len>>

\* GUI: stop() and exit_app() set stop_event
FedexStop ==
    /\ script = "fedex"
    /\ rb.pc = "pool"
    /\ ~stop
    /\ stop' = TRUE
    /\ UNCHANGED <<script, call, thread_local, history, fs, paused, stats, session_version,
                   processed_since_maintenance, results_rows, rb, work_queue, wk, fx,
                   stop_len>>

\* GUI: resume() clears stop_event
FedexResume ==
    /\ script = "fedex"
    /\ rb.pc = "pool"
    /\ stop
    /\ stop' = FALSE
    /\ UNCHANGED <<script, call, thread_local, history, fs, paused, stats, session_version,
                   processed_since_maintenance, results_rows, rb, work_queue, wk, fx,
                   stop_len>>

\* ------------------------------------------------------------ specification
\* no function call under study
NoCall == [fn |-> "none"]

InitProcess ==
    /\ stop = FALSE
    /\ paused = FALSE
    /\ stats = [processed |-> 0, skipped |-> 0, total |-> 0]
    /\ session_version = 0
    /\ processed_since_maintenance = 0
    /\ results_rows = <<>>
    /\ rb = [pc |-> "idle", input |-> <<>>, zips |-> <<>>, out_path |-> OutputArg]
    /\ work_queue = <<>>
    /\ wk = [w \in Workers |-> IdleLocals]
    /\ fx = [w \in Workers |-> FedexIdle]
    /\ thread_local = [w \in Workers |-> [driver |-> 0]]
    /\ stop_len = -1

InitMemory == InitProcess /\ call = NoCall

\* launch_gui of either program on a file system without earlier output
Init ==
    /\ script \in {"ups", "fedex"}
    /\ fs = [p \in Paths |-> NoFile]
    /\ history = <<>>
    /\ InitMemory

\* the command-line run of either program on the file system left by earlier
\* executions of the same program
InitFiles ==
    /\ script \in {"ups", "fedex"}
    /\ \E e \in IF script = "ups" THEN PriorExecutions(PriorRowUps) ELSE FedexPriorExecutions :
           fs = e.files /\ history = e.log
    /\ InitMemory

NextBatch ==
    \/ RunBatchBegin
    \/ RunBatchEnd
    \/ \E w \in Workers : Take(w)
    \/ \E w \in Workers : Attempt(w)
    \/ \E w \in Workers : AppendRow(w)
    \/ \E w \in Workers : RecordProcessed(w)
    \/ FedexRunBatchBegin
    \/ FedexRunBatchEnd
    \/ \E w \in Workers : FedexTake(w)
    \/ \E w \in Workers : FedexAttempt(w)
    \/ \E w \in Workers : FedexAppendRow(w)
    \/ \E w \in Workers : FedexRecord(w)

Next ==
    \/ NextBatch
    \/ Pause
    \/ Resume
    \/ Stop
    \/ FedexStop
    \/ FedexResume

Spec == Init /\ [][Next]_vars

SpecFiles == InitFiles /\ [][NextBatch]_vars

\* the command-line run of either program on a file system without earlier output
SpecBatch == Init /\ [][NextBatch]_vars

\* launch_gui of ups_priority alone
InitUps ==
    /\ script = "ups"
    /\ fs = [p \in Paths |-> NoFile]
    /\ history = <<>>
    /\ InitMemory

NextUps ==
    \/ RunBatchBegin
    \/ RunBatchEnd
    \/ \E w \in Workers : Take(w)
    \/ \E w \in Workers : Attempt(w)
    \/ \E w \in Workers : AppendRow(w)
    \/ \E w \in Workers : RecordProcessed(w)
    \/ Pause
    \/ Resume
    \/ Stop

\* every pool thread keeps running: a thread that can take a key, go through
\* the head of the attempt loop, append its row or record it, does so.  The
\* operator of the GUI is under no such obligation
PoolFairness ==
    \A w \in Workers :
        /\ WF_vars(Take(w))
        /\ WF_vars(Attempt(w))
        /\ WF_vars(AppendRow(w))
        /\ WF_vars(RecordProcessed(w))

SpecLive == InitUps /\ [][NextUps]_vars /\ PoolFairness

\* launch_gui of ups_priority where the window is closed during the batch and
\* pause is never pressed
NextStop ==
    \/ RunBatchBegin
    \/ RunBatchEnd
    \/ \E w \in Workers : Take(w)
    \/ \E w \in Workers : Attempt(w)
    \/ \E w \in Workers : AppendRow(w)
    \/ \E w \in Workers : RecordProcessed(w)
    \/ Stop

SpecStop == InitUps /\ [][NextStop]_vars

\* launch_gui of ups_priority with on_close taken statement by statement
NextClose ==
    \/ RunBatchBegin
    \/ RunBatchEnd
    \/ \E w \in Workers : Take(w)
    \/ \E w \in Workers : Attempt(w)
    \/ \E w \in Workers : AppendRow(w)
    \/ \E w \in Workers : RecordProcessed(w)
    \/ Pause
    \/ Resume
    \/ OnCloseStop
    \/ OnClosePause

\* the pool threads keep running, and so does the thread of run_batch once
\* the pool has been joined; nothing is assumed of the GUI thread, not even
\* that on_close reaches its second statement
CloseFairness == PoolFairness /\ WF_vars(RunBatchEnd)

SpecClose == InitUps /\ [][NextClose]_vars /\ CloseFairness

\* ups_priority.write_output_file called on its own: the keys, rows and tables
\* it is given
WriteKeys == {normalize_zip(t) : t \in RawTokens} \ {<<>>}

WriteRows == {[PriorRowUps EXCEPT !.ZIP = z, !.STATUS = st] : z \in WriteKeys, st \in {"OK", "SKIPPED"}}

WriteTables == UNION {[1..n -> WriteRows] : n \in 0..MaxZips}

\* the file at the path is missing, or is one write_output_file wrote (one row
\* per key); history keeps the keys it was written for
InitWrite ==
    /\ script = "ups"
    /\ \E old \in {t \in WriteTables : drop_duplicates(t) = t}, exists \in BOOLEAN :
        /\ exists \/ old = <<>>
        /\ fs = [p \in Paths |-> IF p = OutputArg /\ exists THEN File(old) ELSE NoFile]
        /\ history = IF old = <<>> THEN <<>>
                     ELSE <<[input |-> [i \in DOMAIN old |-> old[i].ZIP], out |-> OutputArg]>>
    /\ InitMemory

\* write_output_file(path, cols, rows)
WriteCall ==
    /\ script = "ups"
    /\ rb.pc = "idle"
    /\ \E rows \in WriteTables :
        /\ results_rows' = rows
        /\ fs' = [fs EXCEPT ![OutputArg] = write_output_file(@, rows)]
    /\ rb' = [rb EXCEPT !.pc = "written"]
    /\ UNCHANGED <<script, call, thread_local, fx, history, stop, paused, stats, session_version,
                   processed_since_maintenance, work_queue, wk, stop_len>>

SpecWrite == InitWrite /\ [][WriteCall]_vars

\* ------------------------------------------- run_option_two_concurrent
\* main, pass 2: the sequential loop that hands each row to append_row
AppendKeys == {normalize_zip(RawPool[i]) : i \in 1..NumTokens}

AppendRows == {[ZIPCODES |-> z, OVERLAPS_MULTIPLE |-> m] : z \in AppendKeys, m \in {"", "multiple"}}

AppendTables == UNION {[1..n -> AppendRows] : n \in 0..MaxZips}

AltPaths == Paths \ {OutputArg}

\* variant: the write after the loop goes to path again
append_row_target_primary(i, locked) ==
    IF i < TRIES /\ locked THEN "retry" ELSE "primary"

\* what one pass of append_row does: pass i < tries opens path and either
\* writes the row and returns, or catches PermissionError and sleeps; after
\* the loop the row goes to alt
append_row_target(i, locked) ==
    IF i < TRIES THEN (IF locked THEN "retry" ELSE "primary") ELSE "alternate"

\* ensure_header has run: the file at out_path exists, with the rows an
\* earlier execution may have left in it
InitAppend ==
    /\ script = "option_two"
    /\ history = <<>>
    /\ InitProcess
    /\ \E old \in {t \in AppendTables : Len(t) <= 1}, rows \in AppendTables :
        /\ fs = [p \in Paths |-> IF p = OutputArg THEN File(old) ELSE NoFile]
        /\ call = [fn |-> "main", pc |-> "for", old |-> old, rows |-> rows, k |-> 1, i |-> 0]

\* for z in zips: ... append_row(out_path, cols, row)
MainNextRow ==
    /\ script = "option_two"
    /\ call.pc = "for"
    /\ call' = IF call.k <= Len(call.rows)
               THEN [call EXCEPT !.pc = "append_row", !.i = 0]
               ELSE [call EXCEPT !.pc = "done"]
    /\ UNCHANGED <<script, fs, thread_local, fx, history, stop, paused, stats, session_version,
                   processed_since_maintenance, results_rows, rb, work_queue, wk, stop_len>>

\* one pass of the retry loop of append_row, or the write to alt after it
AppendRowPass ==
    /\ script = "option_two"
    /\ call.pc = "append_row"
    /\ \E locked \in BOOLEAN, alt \in AltPaths :
        LET row == call.rows[call.k]
            target == append_row_target(call.i, locked)
        IN  CASE target = "retry" ->
                    /\ call' = [call EXCEPT !.i = @ + 1]
                    /\ UNCHANGED fs
              [] target = "primary" ->
                    /\ fs' = [fs EXCEPT ![OutputArg] = File(Append(@.rows, row))]
                    /\ call' = [call EXCEPT !.pc = "for", !.k = @ + 1]
              [] OTHER ->
                    /\ fs' = [fs EXCEPT ![alt] = File(Append(@.rows, row))]
                    /\ call' = [call EXCEPT !.pc = "for", !.k = @ + 1]
    /\ UNCHANGED <<script, thread_local, fx, history, stop, paused, stats, session_version,
                   processed_since_maintenance, results_rows, rb, work_queue, wk, stop_len>>

NextAppend == MainNextRow \/ AppendRowPass

SpecAppend == InitAppend /\ [][NextAppend]_vars

\* -------------------------------------------------- normalize_zip, called
\* characters raw cells are made of: digits, the decimal point, a blank, noise
TokenChars == {"0", "1", "5", ".", " ", "x"}

\* raw values handed to normalize_zip: None, or any object through its str()
RawValues ==
    {[is_none |-> TRUE, text |-> <<>>]} \cup
    {[is_none |-> FALSE, text |-> t] : t \in UNION {[1..n -> TokenChars] : n \in 0..MaxTokenLen}}

\* "" if val is None else str(val)
str_or_empty(val) == IF val.is_none THEN <<>> ELSE val.text

\* a raw cell is about to be normalised
InitNormalize ==
    /\ script \in {"ups", "fedex"}
    /\ history = <<>>
    /\ fs = [p \in Paths |-> NoFile]
    /\ InitProcess
    /\ \E val \in RawValues :
        call = [fn |-> "normalize_zip", pc |-> "call", val |-> val, key |-> <<>>, again |-> <<>>]

\* read_input_rows: the cell becomes a key
NormalizeCall ==
    /\ call.fn = "normalize_zip"
    /\ call.pc = "call"
    /\ call' = [call EXCEPT !.pc = "returned", !.key = normalize_zip(str_or_empty(call.val))]
    /\ UNCHANGED <<script, fs, thread_local, fx, history, stop, paused, stats, session_version,
                   processed_since_maintenance, results_rows, rb, work_queue, wk, stop_len>>

\* process_zip normalises the key it is handed once more
NormalizeAgain ==
    /\ call.fn = "normalize_zip"
    /\ call.pc = "returned"
    /\ call' = [call EXCEPT !.pc = "renormalized", !.again = normalize_zip(call.key)]
    /\ UNCHANGED <<script, fs, thread_local, fx, history, stop, paused, stats, session_version,
                   processed_since_maintenance, results_rows, rb, work_queue, wk, stop_len>>

NextNormalize == NormalizeCall \/ NormalizeAgain

SpecNormalize == InitNormalize /\ [][NextNormalize]_vars

\* ------------------------------------------- fedex_scraper, one pool thread
\* The work items one pool thread of fedex_scraper.run_batch runs, one after
\* the other: call.l are the locals of process_zip, call.run counts the
\* Poller results TIMEOUT this thread has seen in a row with no cooldown
\* since, call.cooldowns the 60 s cooldowns it has taken
InitController ==
    /\ script = "fedex"
    /\ history = <<>>
    /\ fs = [p \in Paths |-> NoFile]
    /\ InitProcess
    /\ \E zips \in {fedex_read_input_rows(cells) : cells \in InputFiles} \ {<<>>} :
        call = [fn |-> "process_zip", zips |-> zips, l |-> FedexIdle, run |-> 0,
                cooldowns |-> 0]

\* the thread takes its next work item: process_zip up to the attempt loop
ControllerTake ==
    /\ call.fn = "process_zip"
    /\ call.l.pc = "idle"
    /\ call.zips # <<>>
    /\ call' = [call EXCEPT !.zips = Tail(@),
                            !.l = [FedexIdle EXCEPT !.pc = "while",
                                                    !.zipcode = normalize_zip(Head(call.zips)),
                                                    !.status = STATUS_ERROR]]
    /\ UNCHANGED <<script, fs, thread_local, fx, history, stop, paused, stats, session_version,
                   processed_since_maintenance, results_rows, rb, work_queue, wk, stop_len>>

\* while attempts < 2 and not stop_event.is_set(): one pass of the loop body
ControllerAttempt ==
    /\ call.fn = "process_zip"
    /\ call.l.pc = "while"
    /\ IF call.l.attempts < FEDEX_ATTEMPTS /\ ~stop
       THEN \E pass \in FedexPasses :
                LET after == fedex_loop_body(call.l, pass)
                    timed_out == pass.pre = "submitted" /\ pass.state.status = STATUS_TIMEOUT
                    cooled == timed_out /\ after.timeout_streak = 0
                IN  call' = [call EXCEPT !.l = after,
                                         !.run = IF timed_out /\ ~cooled THEN @ + 1 ELSE 0,
                                         !.cooldowns = IF cooled THEN @ + 1 ELSE @]
       ELSE call' = [call EXCEPT !.l.pc = "after_loop"]
    /\ UNCHANGED <<script, fs, thread_local, fx, history, stop, paused, stats, session_version,
                   processed_since_maintenance, results_rows, rb, work_queue, wk, stop_len>>

\* the statements after the loop, the row, the stats; process_zip returns
ControllerReturn ==
    /\ call.fn = "process_zip"
    /\ call.l.pc = "after_loop"
    /\ LET l == FedexAfterLoop(call.l)
       IN  /\ results_rows' = Append(results_rows, FedexRow(l))
           /\ stats' = [stats EXCEPT !.processed = @ + 1,
                                     !.skipped = IF l.status # STATUS_OK THEN @ + 1 ELSE @]
    /\ call' = [call EXCEPT !.l = FedexIdle]
    /\ UNCHANGED <<script, fs, thread_local, fx, history, stop, paused, session_version,
                   processed_since_maintenance, rb, work_queue, wk, stop_len>>

NextController == ControllerTake \/ ControllerAttempt \/ ControllerReturn

SpecController == InitController /\ [][NextController]_vars

\* ------------------------------------- wait_fedex_result_or_terminal, called
\* characters of a body text as the driver returns it: a letter, a line break
TextChars == {"a", "\n"}

Texts == UNION {[1..n -> TextChars] : n \in 0..MaxTextLen}

IsWhitespace(c) == c \in {" ", "\n"}

RECURSIVE CollapseInto(_, _, _)
CollapseInto(txt, acc, pending) ==
    IF txt = <<>> THEN acc
    ELSE IF IsWhitespace(Head(txt)) THEN CollapseInto(Tail(txt), acc, TRUE)
    ELSE CollapseInto(Tail(txt),
                      (IF pending /\ acc # <<>> THEN acc \o <<" ">> ELSE acc) \o <<Head(txt)>>,
                      FALSE)

\* " ".join((txt or "").split())
collapse(txt) == CollapseInto(txt, <<>>, FALSE)

\* the page at one moment: its markers, the text of its body, and whether
\* clean_message leaves anything of that text
FedexPage ==
    [pdf : BOOLEAN, hidden : BOOLEAN, no_data : BOOLEAN, body : Texts, cleaned : BOOLEAN]

\* what the Poller makes of the page: current_body() against prev_marker
FedexLook(page, prev_marker) ==
    LET txt == collapse(page.body)
    IN  [pdf |-> page.pdf, hidden |-> page.hidden, no_data |-> page.no_data,
         changed |-> txt # <<>> /\ txt # prev_marker, cleaned |-> page.cleaned]

\* process_zip has submitted the key and read prev_marker, the text of the
\* body ("" when the read raised); body0 is the text the body had then
InitPoller ==
    /\ script = "fedex"
    /\ history = <<>>
    /\ fs = [p \in Paths |-> NoFile]
    /\ InitProcess
    /\ \E body0 \in Texts, read_failed \in BOOLEAN :
        call = [fn |-> "wait_fedex_result_or_terminal", pc |-> "quick",
                body0 |-> body0, prev_marker |-> IF read_failed THEN <<>> ELSE body0,
                n |-> 0, differed |-> FALSE,
                look |-> [pdf |-> FALSE, hidden |-> FALSE, no_data |-> FALSE,
                          body |-> body0, cleaned |-> FALSE],
                state |-> FedexNoState]

\* the quick checks before the loop
PollerQuick ==
    /\ call.fn = "wait_fedex_result_or_terminal"
    /\ call.pc = "quick"
    /\ \E page \in FedexPage :
        LET r == wait_fedex_result_or_terminal(FedexLook(page, call.prev_marker), <<>>)
        IN  call' = [call EXCEPT !.look = page,
                                 !.differed = @ \/ page.body # call.body0,
                                 !.pc = IF r.status = STATUS_TIMEOUT THEN "loop" ELSE "returned",
                                 !.state = IF r.status = STATUS_TIMEOUT THEN @ ELSE r]
    /\ UNCHANGED <<script, fs, thread_local, fx, history, stop, paused, stats, session_version,
                   processed_since_maintenance, results_rows, rb, work_queue, wk, stop_len>>

\* one iteration of the loop
PollerSample ==
    /\ call.fn = "wait_fedex_result_or_terminal"
    /\ call.pc = "loop"
    /\ call.n < MaxSamples
    /\ \E page \in FedexPage :
        LET r == FedexPollLoop(<<FedexLook(page, call.prev_marker)>>)
        IN  call' = [call EXCEPT !.look = page,
                                 !.n = @ + 1,
                                 !.differed = @ \/ page.body # call.body0,
                                 !.pc = IF r.status = STATUS_TIMEOUT THEN "loop" ELSE "returned",
                                 !.state = IF r.status = STATUS_TIMEOUT THEN @ ELSE r]
    /\ UNCHANGED <<script, fs, thread_local, fx, history, stop, paused, stats, session_version,
                   processed_since_maintenance, results_rows, rb, work_queue, wk, stop_len>>

\* the loop test fails: time.time() >= end
PollerDeadline ==
    /\ call.fn = "wait_fedex_result_or_terminal"
    /\ call.pc = "loop"
    /\ call' = [call EXCEPT !.pc = "returned", !.state = FedexTimedOut]
    /\ UNCHANGED <<script, fs, thread_local, fx, history, stop, paused, stats, session_version,
                   processed_since_maintenance, results_rows, rb, work_queue, wk, stop_len>>

NextPoller == PollerQuick \/ PollerSample \/ PollerDeadline

SpecPoller == InitPoller /\ [][NextPoller]_vars

\* -------------------------------- wait_for_result_or_terminal_state, called
\* ups_priority.process_zip has submitted the key and calls its Poller
InitUpsPoller ==
    /\ script = "ups"
    /\ history = <<>>
    /\ fs = [p \in Paths |-> NoFile]
    /\ InitProcess
    /\ call = [fn |-> "wait_for_result_or_terminal_state", pc |-> "early", n |-> 0,
               look |-> [no_info |-> FALSE, changed |-> FALSE], status |-> ""]

\* early = detect_no_info_state(driver), before the loop
UpsPollerEarly ==
    /\ call.fn = "wait_for_result_or_terminal_state"
    /\ call.pc = "early"
    /\ \E s \in UpsSample :
        LET r == wait_for_result_or_terminal_state(s.no_info, <<>>)
        IN  call' = [call EXCEPT !.look = s,
                                 !.pc = IF r = "TIMEOUT" THEN "loop" ELSE "returned",
                                 !.status = IF r = "TIMEOUT" THEN @ ELSE r]
    /\ UNCHANGED <<script, fs, thread_local, fx, history, stop, paused, stats, session_version,
                   processed_since_maintenance, results_rows, rb, work_queue, wk, stop_len>>

\* one iteration of the loop
UpsPollerSample ==
    /\ call.fn = "wait_for_result_or_terminal_state"
    /\ call.pc = "loop"
    /\ call.n < MaxSamples
    /\ \E s \in UpsSample :
        LET r == PollLoop(<<s>>)
        IN  call' = [call EXCEPT !.look = s,
                                 !.n = @ + 1,
                                 !.pc = IF r = "TIMEOUT" THEN "loop" ELSE "returned",
                                 !.status = IF r = "TIMEOUT" THEN @ ELSE r]
    /\ UNCHANGED <<script, fs, thread_local, fx, history, stop, paused, stats, session_version,
                   processed_since_maintenance, results_rows, rb, work_queue, wk, stop_len>>

\* the loop test fails: time.time() >= end
UpsPollerDeadline ==
    /\ call.fn = "wait_for_result_or_terminal_state"
    /\ call.pc = "loop"
    /\ call' = [call EXCEPT !.pc = "returned", !.status = PollLoop(<<>>)]
    /\ UNCHANGED <<script, fs, thread_local, fx, history, stop, paused, stats, session_version,
                   processed_since_maintenance, results_rows, rb, work_queue, wk, stop_len>>

NextUpsPoller == UpsPollerEarly \/ UpsPollerSample \/ UpsPollerDeadline

\* either Poller, called by a thread that keeps running: every iteration
\* takes at least its 250 ms sleep, so the deadline leaves room for a bounded
\* number of them
NextPollers == NextPoller \/ NextUpsPoller

InitPollers == InitPoller \/ InitUpsPoller

SpecPollers == InitPollers /\ [][NextPollers]_vars /\ WF_vars(NextPollers)

\* ------------------------------------- fedex_scraper, the tail of process_zip
\* A run_batch of fedex_scraper well into a long input: processed is just
\* below a multiple of PAUSE_EVERY and a few keys are still queued.  Of
\* process_zip only its tail is followed step by step: everything up to the
\* append of the row is one step, then the update of stats under stats_lock,
\* then pause_if_needed, which takes stats_lock again.  call.pauses counts
\* the pauses taken
InitPause ==
    /\ script = "fedex"
    /\ history = <<>>
    /\ fs = [p \in Paths |-> NoFile]
    /\ stop = FALSE
    /\ paused = FALSE
    /\ session_version = 0
    /\ processed_since_maintenance = 0
    /\ results_rows = <<>>
    /\ wk = [w \in Workers |-> IdleLocals]
    /\ fx = [w \in Workers |-> FedexIdle]
    /\ thread_local = [w \in Workers |-> [driver |-> 0]]
    /\ stop_len = -1
    /\ call = [fn |-> "pause_if_needed", pauses |-> 0]
    /\ \E done \in (PAUSE_EVERY - MaxZips)..(PAUSE_EVERY - 1), left \in 1..MaxZips,
          skipped \in 0..1 :
        /\ stats = [processed |-> done, skipped |-> skipped, total |-> done + left]
        /\ work_queue = [i \in 1..left |-> PriorKey]
        /\ rb = [pc |-> "pool", input |-> <<>>, zips |-> <<>>, out_path |-> OutputArg]

\* process_zip from its start to results_rows.append(row)
PauseProcess(w) ==
    /\ call.fn = "pause_if_needed"
    /\ fx[w].pc = "idle"
    /\ work_queue # <<>>
    /\ work_queue' = Tail(work_queue)
    /\ \E status \in {STATUS_OK, STATUS_NO_DATA} :
        fx' = [fx EXCEPT ![w] = [FedexIdle EXCEPT !.pc = "record", !.status = status,
                                                  !.zipcode = Head(work_queue)]]
    /\ UNCHANGED <<script, call, fs, thread_local, history, stop, paused, stats, session_version,
                   processed_since_maintenance, results_rows, rb, wk, stop_len>>

\* with stats_lock: stats["processed"] += 1; skipped likewise
PauseCount(w) ==
    /\ call.fn = "pause_if_needed"
    /\ fx[w].pc = "record"
    /\ stats' = [stats EXCEPT !.processed = @ + 1,
                              !.skipped = IF fx[w].status # STATUS_OK THEN @ + 1 ELSE @]
    /\ fx' = [fx EXCEPT ![w].pc = "pause_if_needed"]
    /\ UNCHANGED <<script, call, fs, thread_local, history, stop, paused, session_version,
                   processed_since_maintenance, results_rows, rb, work_queue, wk, stop_len>>

\* pause_if_needed: should_pause is read under stats_lock
should_pause(processed) == processed # 0 /\ processed % PAUSE_EVERY = 0

\* pause_if_needed(), then process_zip returns
PauseIfNeeded(w) ==
    /\ call.fn = "pause_if_needed"
    /\ fx[w].pc = "pause_if_needed"
    /\ call' = [call EXCEPT !.pauses = IF should_pause(stats.processed) THEN @ + 1 ELSE @]
    /\ fx' = [fx EXCEPT ![w] = FedexIdle]
    /\ UNCHANGED <<script, fs, thread_local, history, stop, paused, stats, session_version,
                   processed_since_maintenance, results_rows, rb, work_queue, wk, stop_len>>

NextPause == \E w \in Workers : PauseProcess(w) \/ PauseCount(w) \/ PauseIfNeeded(w)

SpecPause == InitPause /\ [][NextPause]_vars

\* ------------------------- ups_priority, processed_since_maintenance
\* A run_batch of ups_priority well into a long input:
\* processed_since_maintenance is just below MAINTENANCE_EVERY and a few keys
\* are still queued.  Each key is followed through maybe_maintenance (the
\* test and the reset, both under maintenance_lock), one pass that succeeds,
\* and record_processed (under stats_lock), whose
\* `processed_since_maintenance += 1` is a load and a store.  call.loaded is
\* the value each thread has loaded, call.since the keys recorded since the
\* last maintenance was decided, call.short whether a maintenance was decided
\* with fewer than MAINTENANCE_EVERY keys recorded since the one before
InitMaintenance ==
    /\ script = "ups"
    /\ history = <<>>
    /\ fs = [p \in Paths |-> NoFile]
    /\ stop = FALSE
    /\ paused = FALSE
    /\ session_version = 0
    /\ results_rows = <<>>
    /\ wk = [w \in Workers |-> IdleLocals]
    /\ fx = [w \in Workers |-> FedexIdle]
    /\ thread_local = [w \in Workers |-> [driver |-> 0]]
    /\ stop_len = -1
    /\ \E done \in (MAINTENANCE_EVERY - MaxZips)..(MAINTENANCE_EVERY - 1),
          left \in 1..(MaxZips + 2) :
        /\ processed_since_maintenance = done
        /\ stats = [processed |-> done, skipped |-> 0, total |-> done + left]
        /\ work_queue = [i \in 1..left |-> PriorKey]
        /\ rb = [pc |-> "pool", input |-> <<>>, zips |-> <<>>, out_path |-> OutputArg]
        /\ call = [fn |-> "maybe_maintenance", loaded |-> [w \in Workers |-> 0],
                   since |-> done, short |-> FALSE]

\* a pool thread takes the next key and reaches maybe_maintenance()
MaintenanceTake(w) ==
    /\ call.fn = "maybe_maintenance"
    /\ wk[w].pc = "idle"
    /\ work_queue # <<>>
    /\ work_queue' = Tail(work_queue)
    /\ wk' = [wk EXCEPT ![w] = [IdleLocals EXCEPT !.pc = "maybe_maintenance",
                                                  !.zipcode = Head(work_queue)]]
    /\ UNCHANGED <<script, call, fs, thread_local, fx, history, stop, paused, stats,
                   session_version, processed_since_maintenance, results_rows, rb, stop_len>>

\* with maintenance_lock: if processed_since_maintenance >= MAINTENANCE_EVERY
MaintenanceTest(w) ==
    /\ call.fn = "maybe_maintenance"
    /\ wk[w].pc = "maybe_maintenance"
    /\ \A v \in Workers : wk[v].pc # "reset"
    /\ IF maybe_maintenance(processed_since_maintenance, session_version)[2] # session_version
       THEN /\ wk' = [wk EXCEPT ![w].pc = "reset"]
            /\ call' = [call EXCEPT !.since = 0,
                                    !.short = @ \/ call.since < MAINTENANCE_EVERY]
       ELSE /\ wk' = [wk EXCEPT ![w].pc = "pass"]
            /\ UNCHANGED call
    /\ UNCHANGED <<script, fs, thread_local, fx, history, stop, paused, stats, session_version,
                   processed_since_maintenance, results_rows, rb, work_queue, stop_len>>

\* processed_since_maintenance = 0; bump_session_version(); the sleep; the
\* lock is released
MaintenanceReset(w) ==
    /\ call.fn = "maybe_maintenance"
    /\ wk[w].pc = "reset"
    /\ processed_since_maintenance' = 0
    /\ session_version' = session_version + 1
    /\ wk' = [wk EXCEPT ![w].pc = "pass"]
    /\ UNCHANGED <<script, call, fs, thread_local, fx, history, stop, paused, stats,
                   results_rows, rb, work_queue, stop_len>>

\* the pass succeeds and the row is appended
MaintenancePass(w) ==
    /\ call.fn = "maybe_maintenance"
    /\ wk[w].pc = "pass"
    /\ wk' = [wk EXCEPT ![w].pc = "record"]
    /\ UNCHANGED <<script, call, fs, thread_local, fx, history, stop, paused, stats,
                   session_version, processed_since_maintenance, results_rows, rb,
                   work_queue, stop_len>>

\* record_processed: stats_lock taken, stats updated,
\* processed_since_maintenance loaded
RecordLoad(w) ==
    /\ call.fn = "maybe_maintenance"
    /\ wk[w].pc = "record"
    /\ \A v \in Workers : wk[v].pc # "store"
    /\ stats' = [stats EXCEPT !.processed = @ + 1]
    /\ call' = [call EXCEPT !.loaded[w] = processed_since_maintenance]
    /\ wk' = [wk EXCEPT ![w].pc = "store"]
    /\ UNCHANGED <<script, fs, thread_local, fx, history, stop, paused, session_version,
                   processed_since_maintenance, results_rows, rb, work_queue, stop_len>>

\* record_processed: the sum is stored, stats_lock released; process_zip returns
RecordStore(w) ==
    /\ call.fn = "maybe_maintenance"
    /\ wk[w].pc = "store"
    /\ processed_since_maintenance' = call.loaded[w] + 1
    /\ call' = [call EXCEPT !.since = @ + 1]
    /\ wk' = [wk EXCEPT ![w] = IdleLocals]
    /\ UNCHANGED <<script, fs, thread_local, fx, history, stop, paused, stats, session_version,
                   results_rows, rb, work_queue, stop_len>>

NextMaintenance ==
    \E w \in Workers :
        \/ MaintenanceTake(w)
        \/ MaintenanceTest(w)
        \/ MaintenanceReset(w)
        \/ MaintenancePass(w)
        \/ RecordLoad(w)
        \/ RecordStore(w)

SpecMaintenance == InitMaintenance /\ [][NextMaintenance]_vars

\* ---------------------------------- session_version and the cached sessions
\* The pool threads interleave bump_session_version and get_session. call.lock
\* is the thread that holds session_version_lock (0: nobody); call.th is, per
\* thread, its position, the value of session_version it has loaded inside
\* "session_version += 1", the local ver of get_session, and
\* thread_local.sess_version (-1 while the thread has no sess attribute).
SessionIdle == [pc |-> "idle", loaded |-> 0, ver |-> 0, sess_version |-> -1]

InitSession ==
    /\ script = "ups"
    /\ history = <<>>
    /\ fs = [p \in Paths |-> NoFile]
    /\ InitProcess
    /\ call = [fn |-> "get_session", lock |-> 0, th |-> [w \in Workers |-> SessionIdle]]

\* variant: the with statement does not wait for the lock
lock_free_always(holder) == TRUE

\* "with session_version_lock:" is entered only while no thread holds the lock
lock_free(holder) == holder = 0

\* bump_session_version: the lock is acquired
BumpAcquire(w) ==
    /\ call.fn = "get_session"
    /\ call.th[w].pc = "idle"
    /\ session_version < MaxBumps
    /\ lock_free(call.lock)
    /\ call' = [call EXCEPT !.lock = w, !.th[w].pc = "load"]
    /\ UNCHANGED <<script, fs, thread_local, fx, history, stop, paused, stats, session_version,
                   processed_since_maintenance, results_rows, rb, work_queue, wk, stop_len>>

\* session_version += 1: the global is loaded
BumpLoad(w) ==
    /\ call.fn = "get_session"
    /\ call.th[w].pc = "load"
    /\ call' = [call EXCEPT !.th[w].pc = "store", !.th[w].loaded = session_version]
    /\ UNCHANGED <<script, fs, thread_local, fx, history, stop, paused, stats, session_version,
                   processed_since_maintenance, results_rows, rb, work_queue, wk, stop_len>>

\* session_version += 1: the sum is stored, and the lock is released
BumpStore(w) ==
    /\ call.fn = "get_session"
    /\ call.th[w].pc = "store"
    /\ session_version' = call.th[w].loaded + 1
    /\ call' = [call EXCEPT !.lock = 0, !.th[w].pc = "idle"]
    /\ UNCHANGED <<script, fs, thread_local, fx, history, stop, paused, stats,
                   processed_since_maintenance, results_rows, rb, work_queue, wk, stop_len>>

\* get_session: ver = session_version, read without the lock
GetSessionRead(w) ==
    /\ call.fn = "get_session"
    /\ call.th[w].pc = "idle"
    /\ call' = [call EXCEPT !.th[w].pc = "compare", !.th[w].ver = session_version]
    /\ UNCHANGED <<script, fs, thread_local, fx, history, stop, paused, stats, session_version,
                   processed_since_maintenance, results_rows, rb, work_queue, wk, stop_len>>

\* get_session: a new session is cached with ver when the thread has none or
\* has one of another version
GetSessionCache(w) ==
    /\ call.fn = "get_session"
    /\ call.th[w].pc = "compare"
    /\ call' = [call EXCEPT !.th[w].pc = "idle",
                            !.th[w].sess_version =
                                IF @ = -1 \/ @ # call.th[w].ver THEN call.th[w].ver ELSE @]
    /\ UNCHANGED <<script, fs, thread_local, fx, history, stop, paused, stats, session_version,
                   processed_since_maintenance, results_rows, rb, work_queue, wk, stop_len>>

NextSession ==
    \E w \in Workers :
        \/ BumpAcquire(w)
        \/ BumpLoad(w)
        \/ BumpStore(w)
        \/ GetSessionRead(w)
        \/ GetSessionCache(w)

SpecSession == InitSession /\ [][NextSession]_vars

\* ------------------------------------------------------- ensure_header_csv
\* A CSV file as csv.reader sees it: the rows of fields in file order (a blank
\* line is the row <<>>), and bad, the row at which reading raises (an
\* undecodable byte, a csv.Error), 0 when the whole file reads. The column
\* list is shortened to two names.
Cols == <<"ZIP", "STATUS">>

CsvLines == {<<>>, Cols, <<"ZIP", "CITY">>, <<"00501", "OK">>}

NoCsv == [exists |-> FALSE, rows |-> <<>>, bad |-> 0]

\* a file as csv.writer leaves it
Csv(rows) == [exists |-> TRUE, rows |-> rows, bad |-> 0]

CsvFiles ==
    {NoCsv} \cup
    UNION {{[exists |-> TRUE, rows |-> r, bad |-> b] : r \in [1..n -> CsvLines], b \in 0..n} :
           n \in 0..MaxLines}

\* ensure_header_csv: the file it leaves. A missing or empty file gets the
\* header; a file whose first row is cols is left alone (the rest is not
\* read); otherwise the file is rewritten as cols followed by its non-empty
\* rows, and as cols alone when reading raised.
ensure_header_csv(f, cols) ==
    IF ~f.exists \/ f.rows = <<>> THEN Csv(<<cols>>)
    ELSE IF f.bad = 1 THEN Csv(<<cols>>)
    ELSE IF Head(f.rows) = cols THEN f
    ELSE IF f.bad # 0 THEN Csv(<<cols>>)
    ELSE Csv(<<cols>> \o SelectSeq(f.rows, LAMBDA r : r # <<>>))

\* call.before is the file before the first call, call.once the file after
\* it, call.file the file as it is
InitHeader ==
    /\ script = "ups"
    /\ history = <<>>
    /\ fs = [p \in Paths |-> NoFile]
    /\ InitProcess
    /\ \E f \in CsvFiles :
        call = [fn |-> "ensure_header_csv", pc |-> "start", before |-> f, once |-> f, file |-> f]

EnsureHeaderCall ==
    /\ call.fn = "ensure_header_csv"
    /\ call.pc = "start"
    /\ LET f == ensure_header_csv(call.file, Cols)
       IN  call' = [call EXCEPT !.pc = "once", !.once = f, !.file = f]
    /\ UNCHANGED <<script, fs, thread_local, fx, history, stop, paused, stats, session_version,
                   processed_since_maintenance, results_rows, rb, work_queue, wk, stop_len>>

EnsureHeaderAgain ==
    /\ call.fn = "ensure_header_csv"
    /\ call.pc = "once"
    /\ call' = [call EXCEPT !.pc = "twice", !.file = ensure_header_csv(call.file, Cols)]
    /\ UNCHANGED <<script, fs, thread_local, fx, history, stop, paused, stats, session_version,
                   processed_since_maintenance, results_rows, rb, work_queue, wk, stop_len>>

NextHeader == EnsureHeaderCall \/ EnsureHeaderAgain

SpecHeader == InitHeader /\ [][NextHeader]_vars

\* --------------------------------------- run_option_two_concurrent.main
\* what sess.get and parse_page give for one key: an exception, a response
\* that is not ok, or a page with its message and its representatives
Responses ==
    {[kind |-> "exception", msg |-> "", n |-> 0], [kind |-> "http", msg |-> "", n |-> 0]} \cup
    {[kind |-> "page", msg |-> m, n |-> n] : m \in {"", "overlaps"}, n \in 0..MaxReps}

\* the i-th representative of a page
Rep(i) == [name |-> i, party |-> "party", district |-> "district"]

BlankRep == [name |-> 0, party |-> "", district |-> ""]

\* parse_page: msg is the message of the page, or "Zip code: <zipcode>" for a
\* page without message and with one representative
parse_page(resp, zipcode) ==
    [msg |-> IF resp.msg = "" /\ resp.n = 1
             THEN [text |-> "Zip code", zip |-> zipcode]
             ELSE [text |-> resp.msg, zip |-> <<>>],
     reps |-> [i \in 1..resp.n |-> Rep(i)]]

\* variant: the exception of sess.get leaves fetch_and_parse
fetch_and_parse_reraises(zipcode, resp) ==
    IF resp.kind = "exception"
    THEN [raised |-> TRUE, zip |-> zipcode, msg |-> [text |-> "", zip |-> <<>>], reps |-> <<>>]
    ELSE IF resp.kind = "http"
    THEN [raised |-> FALSE, zip |-> zipcode, msg |-> [text |-> "http", zip |-> <<>>], reps |-> <<>>]
    ELSE [raised |-> FALSE, zip |-> zipcode,
          msg |-> parse_page(resp, zipcode).msg, reps |-> parse_page(resp, zipcode).reps]

\* fetch_and_parse: what the future of one key holds
fetch_and_parse(zipcode, resp) ==
    IF resp.kind = "exception"
    THEN [raised |-> FALSE, zip |-> zipcode, msg |-> [text |-> "exception", zip |-> <<>>],
          reps |-> <<>>]
    ELSE IF resp.kind = "http"
    THEN [raised |-> FALSE, zip |-> zipcode, msg |-> [text |-> "http", zip |-> <<>>], reps |-> <<>>]
    ELSE [raised |-> FALSE, zip |-> zipcode,
          msg |-> parse_page(resp, zipcode).msg, reps |-> parse_page(resp, zipcode).reps]

\* the row main builds for z in pass 2: max_reps column groups, blank past
\* the representatives of z
main_row(z, results, max_reps) ==
    [ZIPCODES |-> z,
     OVERLAPS_MULTIPLE |-> results[z].msg,
     groups |-> [i \in 1..max_reps |->
                    IF i <= Len(results[z].reps) THEN results[z].reps[i] ELSE BlankRep]]

\* main after read_zips: every key is submitted to the pool; call.pending are
\* the futures as_completed has not yielded yet
InitMain ==
    /\ script = "option_two"
    /\ history = <<>>
    /\ InitProcess
    /\ \E zips \in UNION {[1..n -> AppendKeys] : n \in 0..MaxZips},
          old \in {<<>>, <<[ZIPCODES |-> RawPool[1], OVERLAPS_MULTIPLE |-> [text |-> "", zip |-> <<>>],
                           groups |-> <<>>]>>},
          exists \in BOOLEAN :
        /\ exists \/ old = <<>>
        /\ fs = [p \in Paths |-> IF p = OutputArg /\ exists THEN File(old) ELSE NoFile]
        /\ call = [fn |-> "main", pc |-> "pass1", zips |-> zips, pending |-> DOMAIN zips,
                   results |-> <<>>, max_reps |-> 0, old |-> old, rows |-> <<>>, k |-> 1, i |-> 0]

\* pass 1: as_completed yields a future, in any order; fut.result() raises
\* what fetch_and_parse raised
MainCompleted ==
    /\ script = "option_two"
    /\ call.pc = "pass1"
    /\ \E j \in call.pending, resp \in Responses :
        LET r == fetch_and_parse(call.zips[j], resp)
        IN  IF r.raised
            THEN call' = [call EXCEPT !.pc = "raised"]
            ELSE call' = [call EXCEPT
                    !.pending = @ \ {j},
                    !.results = [z \in DOMAIN @ \cup {r.zip} |->
                                    IF z = r.zip THEN [msg |-> r.msg, reps |-> r.reps] ELSE @[z]],
                    !.max_reps = IF Len(r.reps) > @ THEN Len(r.reps) ELSE @]
    /\ UNCHANGED <<script, fs, thread_local, fx, history, stop, paused, stats, session_version,
                   processed_since_maintenance, results_rows, rb, work_queue, wk, stop_len>>

\* the pool is joined; ensure_header creates the file when it is missing or
\* empty; pass 2 starts (its rows depend on results and max_reps only, which
\* pass 2 does not change)
MainEnsureHeader ==
    /\ script = "option_two"
    /\ call.pc = "pass1"
    /\ call.pending = {}
    /\ fs' = [fs EXCEPT ![OutputArg] = File(@.rows)]
    /\ call' = [call EXCEPT !.pc = "for",
                            !.rows = [k \in DOMAIN call.zips |->
                                        main_row(call.zips[k], call.results, call.max_reps)]]
    /\ UNCHANGED <<script, thread_local, fx, history, stop, paused, stats, session_version,
                   processed_since_maintenance, results_rows, rb, work_queue, wk, stop_len>>

NextMain == MainCompleted \/ MainEnsureHeader \/ MainNextRow \/ AppendRowPass

SpecMain == InitMain /\ [][NextMain]_vars

\* ------------------------------------------------------------ properties
\* the table written at the end of the run
Written == fs[rb.out_path].rows

\* how many times z occurs in the sequence t
Count(t, z) == Cardinality({i \in DOMAIN t : t[i] = z})

\* C1: once ups_priority.run_batch has returned from write_output_file, the
\* table at out_path holds exactly one row for every key dispatched in the
\* run, however many rows for the key were appended to results_rows.
C1_OneRowPerKey ==
    (script = "ups" /\ rb.pc = "returned") =>
        \A z \in Range(rb.zips) : Cardinality(RowsFor(Written, z)) = 1

\* a returned run in which two rows of results_rows carry the same key
C1_Witness ==
    /\ script = "ups"
    /\ rb.pc = "returned"
    /\ \E i, j \in DOMAIN results_rows : i < j /\ results_rows[i].ZIP = results_rows[j].ZIP

\* C2: resumption: a key that has a Record in the file at the output path
\* given to ups_priority.run_batch is never dispatched to process_zip.
C2_Resumption ==
    script = "ups" => \A z \in Range(rb.zips) : z \notin KeysOf(fs[OutputArg].rows)

\* C3: after a second run of ups_priority.run_batch with the same output path
\* argument and keys disjoint from the first run's, the file at that path
\* holds the union of both runs' keys, each exactly once.
C3_MergedFile ==
    (/\ script = "ups"
     /\ rb.pc = "returned"
     /\ Len(history) = 1
     /\ Range(rb.input) \cap Range(history[1].input) = {}) =>
        /\ KeysOf(fs[OutputArg].rows) = Range(rb.input) \cup Range(history[1].input)
        /\ \A z \in KeysOf(fs[OutputArg].rows) : Cardinality(RowsFor(fs[OutputArg].rows, z)) = 1

\* C4: in ups_priority.process_zip without stop, pause or loss of
\* connectivity, a key all of whose passes ended in the Poller's TIMEOUT has
\* been attempted exactly MAX_RETRIES times when its row is appended, and the
\* row has STATUS SKIPPED and ERROR_TYPE RESULT_TIMEOUT.
C4_TimeoutsExhaustRetries ==
    \A w \in Workers :
        (script = "ups" /\ wk[w].pc = "record" /\ wk[w].only_timeouts /\ ~stop) =>
            /\ wk[w].attempts = MAX_RETRIES
            /\ \E i \in DOMAIN results_rows :
                /\ results_rows[i] = UpsRow(wk[w])
                /\ results_rows[i].STATUS = "SKIPPED"
                /\ results_rows[i].ERROR_TYPE = "RESULT_TIMEOUT"

\* a row has been appended for a key whose three passes all timed out
C4_Witness ==
    \E w \in Workers :
        /\ script = "ups"
        /\ wk[w].pc = "record"
        /\ wk[w].only_timeouts
        /\ wk[w].attempts = MAX_RETRIES
        /\ session_version = MAX_RETRIES

C7_NoDataEndsLoop ==
    \A w \in Workers :
        /\ wk[w].err[2] = "NO_DATA" => wk[w].pc \in {"after_loop", "record"}
        /\ fx[w].err[2] = "NO_DATA" => fx[w].pc \in {"after_loop", "record"}

\* a fedex worker that got NO_DATA on the first of its two attempts
C7_Witness ==
    \E w \in Workers :
        /\ script = "fedex"
        /\ fx[w].err[2] = "NO_DATA"
        /\ fx[w].attempts < FEDEX_ATTEMPTS

\* C8: once stop is asserted in a run of ups_priority.run_batch, no key still
\* waiting in the pool's queue is taken by a worker.
C8_QueuedKeysNeverStarted ==
    [][(script = "ups" /\ stop) => work_queue' = work_queue]_vars

\* C9 as stated: every row appended to results_rows before stop was asserted
\* is a row of the table ups_priority.run_batch writes.
C9_Original ==
    (script = "ups" /\ rb.pc = "returned" /\ stop) =>
        \A i \in 1..stop_len : results_rows[i] \in Range(Written)

\* C9: every row appended to results_rows before stop was asserted is a row of
\* the written table unless a later row of results_rows has the same key, and
\* then the last row with that key is the one written.
C9_LastRowPerKeyKept ==
    (script = "ups" /\ rb.pc = "returned" /\ stop) =>
        \A i \in 1..stop_len :
            LET same == RowsFor(results_rows, results_rows[i].ZIP)
                last == CHOOSE j \in same : \A k \in same : k <= j
            IN  /\ results_rows[last] \in Range(Written)
                /\ (last # i /\ results_rows[i] # results_rows[last]) =>
                        results_rows[i] \notin Range(Written)

\* a stopped run that returned, with a row appended before the stop and a
\* different row for the same key appended after it
C9_Witness ==
    /\ script = "ups"
    /\ rb.pc = "returned"
    /\ stop
    /\ \E i \in 1..stop_len : \E j \in DOMAIN results_rows :
        /\ j > stop_len
        /\ results_rows[j].ZIP = results_rows[i].ZIP
        /\ results_rows[j] # results_rows[i]

\* C10: in a step taken while pause is asserted no ups_priority worker starts
\* an attempt (none submits a key): a worker at the head of the attempt loop
\* stays there, or leaves the loop when stop is asserted or its MAX_RETRIES
\* attempts are used up.
C10_NoAttemptWhilePaused ==
    [][(script = "ups" /\ paused) =>
            /\ session_version' = session_version
            /\ \A w \in Workers :
                /\ wk'[w].attempts <= wk[w].attempts
                /\ wk[w].pc = "while" =>
                        /\ wk'[w].pc \in {"while", "record"}
                        /\ wk'[w].pc = "record" =>
                                stop \/ wk[w].attempts = MAX_RETRIES]_vars

\* pause is asserted while a worker with attempts left is at the head of the loop
C10_Witness ==
    \E w \in Workers :
        /\ script = "ups"
        /\ paused
        /\ ~stop
        /\ wk[w].pc = "while"
        /\ wk[w].attempts < MAX_RETRIES

\* C11: a key of ups_priority that has begun an attempt when pause is asserted
\* has its row appended while pause stays asserted: from a state in which pause
\* is asserted and a worker is inside the attempt loop with an attempt made,
\* the worker's row is appended or pause is released.
C11_InFlightCompletesUnderPause ==
    \A w \in Workers :
        (script = "ups" /\ paused /\ wk[w].pc = "while" /\ wk[w].attempts >= 1)
            ~> (~paused \/ wk[w].pc \in {"record", "idle"})

\* C12: in a run of ups_priority.run_batch every key taken by a worker gets
\* exactly one row in results_rows once its process_zip has appended, and the
\* processed counter is the number of keys whose process_zip has returned;
\* so when the pool is done every dispatched key has exactly one row and was
\* counted once, whatever happened to the other keys.
C12_OneRowOneCountPerKey ==
    script = "ups" =>
        /\ \A z \in Range(rb.zips) :
                Cardinality(RowsFor(results_rows, z)) =
                    Count(rb.zips, z) - Count(work_queue, z)
                        - Cardinality({w \in Workers :
                                        /\ wk[w].pc \in {"while", "after_loop", "except"}
                                        /\ wk[w].zipcode = z})
        /\ stats.processed =
                Len(results_rows) - Cardinality({w \in Workers : wk[w].pc = "record"})
        /\ rb.pc = "returned" =>
                /\ Len(results_rows) = Len(rb.zips)
                /\ stats.processed = Len(rb.zips)

\* a returned run of two keys: one ended in the exception handler, the other is OK
C12_Witness ==
    /\ script = "ups"
    /\ rb.pc = "returned"
    /\ Len(rb.zips) = 2
    /\ stats.processed = 2
    /\ \E i, j \in DOMAIN results_rows :
        /\ results_rows[i].ERROR_TYPE = "EXCEPTION"
        /\ results_rows[j].STATUS = "OK"

\* C13: when a run of fedex_scraper.run_batch that was never stopped has
\* returned, every input key has exactly one row in results_rows for each of
\* its occurrences in the input, also a key whose build_driver raised.
C13_FedexEveryKeyOneRow ==
    (script = "fedex" /\ rb.pc = "returned") =>
        \A z \in Range(rb.zips) :
            Cardinality(RowsFor(results_rows, z)) = Count(rb.zips, z)

\* C14: a worker whose attempt raised an unexpected exception has left the
\* attempt loop with status ERROR, in ups_priority and in fedex_scraper,
\* whatever is left of the retry budget, and every row with error kind
\* EXCEPTION has STATUS ERROR and ERROR_STEP UNEXPECTED.
C14_ExceptionIsErrorNoRetry ==
    /\ \A w \in Workers :
        /\ wk[w].err[2] = "EXCEPTION" =>
                wk[w].pc \in {"except", "record"} /\ wk[w].status_val = "ERROR"
        /\ fx[w].err[2] = "EXCEPTION" =>
                fx[w].pc \in {"after_loop", "record"} /\ fx[w].status = STATUS_ERROR
    /\ \A i \in DOMAIN results_rows :
        results_rows[i].ERROR_TYPE = "EXCEPTION" =>
            results_rows[i].STATUS = "ERROR" /\ results_rows[i].ERROR_STEP = "UNEXPECTED"

\* a ups row has been appended for a key whose first attempt raised
C14_Witness ==
    \E w \in Workers :
        /\ script = "ups"
        /\ wk[w].pc = "record"
        /\ wk[w].err[2] = "EXCEPTION"
        /\ wk[w].attempts < MAX_RETRIES
        /\ \E i \in DOMAIN results_rows : results_rows[i] = UpsRow(wk[w])

\* C15: after bump_session_version the next get_browser of a worker returns a
\* driver created after the bump.  A worker at the head of the attempt loop
\* with an attempt made has had its last attempt end in a transient failure,
\* which bumped the version after the worker's get_browser; so in the step in
\* which it makes its next attempt (one that gets as far as using the driver)
\* its thread's driver is not the one it had.
C15_FreshContextAfterBump ==
    [][\A w \in Workers :
            (/\ script = "ups"
             /\ wk[w].pc = "while"
             /\ wk[w].attempts >= 1
             /\ wk'[w].attempts = wk[w].attempts + 1
             /\ wk'[w].err[2] # "EXCEPTION") =>
                thread_local'[w].driver # thread_local[w].driver]_vars

\* C16: in ups_priority.process_zip an attempt that sends the worker back to
\* the head of the loop ended in one of the transient failures (LOAD_PAGE
\* TIMEOUT, CAPTCHA_OR_BLOCKED, RESULT_TIMEOUT, PARSE_FAILED) and raised
\* session_version by exactly one, while an attempt that ends the loop leaves
\* session_version alone; and the next thing a worker at the head of the loop
\* with an attempt made does is to leave the loop without a further pass
\* exactly when attempts = MAX_RETRIES or stop is asserted.
C16_TransientBumpsAndRetries ==
    [][script = "ups" =>
        \A w \in Workers :
            /\ (wk'[w].attempts = wk[w].attempts + 1 /\ wk'[w].pc = "while") =>
                    /\ wk'[w].err[2] \in {"TIMEOUT", "CAPTCHA_OR_BLOCKED", "RESULT_TIMEOUT",
                                          "PARSE_FAILED"}
                    /\ session_version' = session_version + 1
            /\ (wk'[w].attempts = wk[w].attempts + 1 /\ wk'[w].pc # "while") =>
                    session_version' = session_version
            /\ (wk[w].pc = "while" /\ wk[w].attempts >= 1 /\ wk'[w] # wk[w]) =>
                    ((wk'[w].pc = "record" /\ wk'[w].attempts = wk[w].attempts)
                        <=> ~(wk[w].attempts < MAX_RETRIES /\ ~stop))]_vars

\* a worker is about to make its third attempt after two transient failures
C16_Witness ==
    \E w \in Workers :
        /\ script = "ups"
        /\ ~stop
        /\ wk[w].pc = "while"
        /\ wk[w].attempts = 2
        /\ wk[w].err[2] = "PARSE_FAILED"
        /\ session_version = 2

\* C17: in ups_priority.process_zip the attempt count of a key never exceeds
\* MAX_RETRIES, and a pass of the loop that finds connectivity unavailable
\* leaves the attempt count as it was.
C17_BudgetAndOffline ==
    [][script = "ups" =>
        \A w \in Workers :
            /\ wk'[w].attempts <= MAX_RETRIES
            /\ (/\ wk[w].pc = "while"
                /\ wk'[w].pc = "while"
                /\ wk'[w].err[2] = "NO_INTERNET"
                /\ wk'[w].err # wk[w].err) =>
                    wk'[w].attempts = wk[w].attempts]_vars

\* a worker found connectivity unavailable after two counted attempts
C17_Witness ==
    \E w \in Workers :
        /\ script = "ups"
        /\ wk[w].pc = "while"
        /\ wk[w].err[2] = "NO_INTERNET"
        /\ wk[w].attempts = MAX_RETRIES - 1

\* C18: in fedex_scraper.process_zip a key whose Poller returned Success
\* (status OK) gets status OK exactly when the payload of that Success, its
\* result_text, is non-empty.
C18_SuccessOkIffPayload ==
    \A w \in Workers :
        (script = "fedex" /\ fx[w].pc = "record" /\ fx[w].state.status = STATUS_OK) =>
            (fx[w].status = STATUS_OK <=> fx[w].state.result_text # "")

\* C19: the table written by fedex_scraper.run_batch holds at most one row
\* for a key.
C19_FedexOneRowPerKey ==
    (script = "fedex" /\ rb.pc = "returned") =>
        \A z \in KeysOf(Written) : Cardinality(RowsFor(Written, z)) = 1

\* C20: a call of ups_priority.write_output_file leaves a table whose keys are
\* those of the existing table and of the new rows, one row each: for a key of
\* the new rows the row appended last with that key, for any other key the
\* row of the existing table.
C20_LastWriteWins ==
    [][(rb.pc = "idle" /\ rb'.pc = "written") =>
        LET old == fs[OutputArg].rows
            new == results_rows'
            out == fs'[OutputArg].rows
        IN  /\ KeysOf(out) = KeysOf(old) \cup KeysOf(new)
            /\ \A z \in KeysOf(out) :
                /\ Cardinality(RowsFor(out, z)) = 1
                /\ LET r == out[CHOOSE i \in RowsFor(out, z) : TRUE]
                   IN  IF z \in KeysOf(new)
                       THEN r = new[CHOOSE j \in RowsFor(new, z) :
                                        \A k \in RowsFor(new, z) : k <= j]
                       ELSE r \in Range(old)]_vars

\* a call has merged new rows into an existing table: one key of the existing
\* table has two different new rows, another has none
C20_Witness ==
    /\ rb.pc = "written"
    /\ history # <<>>
    /\ \E i, j \in DOMAIN results_rows :
        /\ i < j
        /\ results_rows[i].ZIP = results_rows[j].ZIP
        /\ results_rows[i] # results_rows[j]
        /\ results_rows[i].ZIP \in Range(history[1].input)
    /\ \E z \in Range(history[1].input) : z \notin KeysOf(results_rows)

\* rows equal to r over all files
Occurrences(r) ==
    Cardinality({x \in Paths \X (1..(MaxZips + 1)) :
                    x[2] <= Len(fs[x[1]].rows) /\ fs[x[1]].rows[x[2]] = r})

\* C21: append_row writes the given row exactly once and never loses it.  A
\* pass that fails with PermissionError writes nothing; a pass that succeeds
\* is one of the at most TRIES passes on the primary file, appends the row
\* there and leaves every alternate file alone; after TRIES failed passes the
\* row is appended to one alternate file and the primary file is left alone.
\* At every moment each row handed to a finished call is in the files once
\* more than before main started.
C21_AppendRowExactlyOnce ==
    [][(script = "option_two" /\ call.pc = "append_row") =>
        LET row == call.rows[call.k]
        IN  /\ call.i <= TRIES /\ call'.i <= TRIES
            /\ call'.pc = "append_row" =>
                    /\ call.i < TRIES
                    /\ call'.i = call.i + 1
                    /\ fs' = fs
            /\ call'.pc = "for" =>
                    \/ /\ call.i < TRIES
                       /\ fs'[OutputArg].rows = Append(fs[OutputArg].rows, row)
                       /\ \A p \in AltPaths : fs'[p] = fs[p]
                    \/ /\ call.i = TRIES
                       /\ fs'[OutputArg] = fs[OutputArg]
                       /\ \E p \in AltPaths :
                            /\ fs'[p].rows = Append(fs[p].rows, row)
                            /\ \A q \in AltPaths \ {p} : fs'[q] = fs[q]
            /\ \A r \in AppendRows :
                    Occurrences(r)' =
                        Count(call.old, r) + Count(SubSeq(call.rows, 1, call'.k - 1), r)]_vars

\* main has finished; one row went to the primary file and another, after
\* TRIES locked passes, to an alternate file
C21_Witness ==
    /\ script = "option_two"
    /\ call.pc = "done"
    /\ Len(fs[OutputArg].rows) > Len(call.old)
    /\ \E p \in AltPaths : fs[p].rows # <<>>

\* C22: when the output file is locked at the moment run_batch persists its
\* results (write_output_file raises and run_batch with it), the rows of
\* results_rows are still persisted: every key collected in results_rows has
\* a row in some output file.
C22_RecordsPersistedWhenLocked ==
    (rb.pc = "raised" /\ results_rows # <<>>) =>
        \A i \in DOMAIN results_rows :
            \E p \in Paths : fs[p].exists /\ results_rows[i].ZIP \in KeysOf(fs[p].rows)

\* the output files as the executions in history left them
FilesOfHistory ==
    [p \in Paths |-> IF p < Len(history)
                     THEN File(<<IF script = "ups" THEN PriorRowUps ELSE PriorRowFedex>>)
                     ELSE NoFile]

\* C23: run_batch raises when the input yields zero keys: a run_batch that
\* has read an input without keys has raised, has dispatched no key to the
\* queue or to a worker, has collected no row, and has created or modified
\* no output file (the files are the ones earlier executions left).
C23_NoKeysRaises ==
    (rb.pc # "idle" /\ rb.input = <<>>) =>
        /\ rb.pc = "raised"
        /\ fs = FilesOfHistory
        /\ work_queue = <<>>
        /\ results_rows = <<>>
        /\ \A w \in Workers : wk[w].pc = "idle" /\ fx[w].pc = "idle"

\* run_batch has raised on an input without keys, next to an output file of
\* an earlier execution
C23_Witness ==
    /\ rb.pc = "raised"
    /\ rb.input = <<>>
    /\ fs[OutputArg].exists

\* C24: normalize_zip is total and idempotent: for every raw value (None,
\* empty, digits, digits with a ".0" suffix, noise) it returns a string, and
\* normalising the returned key again returns the same key.
C24_TotalIdempotent ==
    (call.fn = "normalize_zip" /\ call.pc # "call") =>
        /\ call.key \in Seq(TokenChars)
        /\ call.pc = "renormalized" => call.again = call.key

\* a cell "501.0"-style (digits, point, zeros) has been normalised twice
C24_Witness ==
    /\ call.fn = "normalize_zip"
    /\ call.pc = "renormalized"
    /\ ~call.val.is_none
    /\ MatchesDotZeros(call.val.text)
    /\ call.key # <<>>

\* the algorithm of the Key Normalizer, step by step, on a raw value
RefTrim(t) ==
    LET solid == {i \in DOMAIN t : t[i] # " "}
    IN  IF solid = {} THEN <<>>
        ELSE SubSeq(t, CHOOSE i \in solid : \A j \in solid : i <= j,
                       CHOOSE i \in solid : \A j \in solid : i >= j)

RefStripSuffix(t) ==
    LET dots == {k \in DOMAIN t : t[k] = "."}
    IN  IF /\ Cardinality(dots) = 1
           /\ \E k \in dots :
                /\ 1 < k /\ k < Len(t)
                /\ \A j \in DOMAIN t : (j < k => t[j] \in Digits) /\ (j > k => t[j] = "0")
        THEN SubSeq(t, 1, (CHOOSE k \in dots : TRUE) - 1)
        ELSE t

RefPad(d) ==
    IF Len(d) >= 5 THEN d
    ELSE [i \in 1..5 |-> IF i <= 5 - Len(d) THEN "0" ELSE d[i - (5 - Len(d))]]

Reference(val) ==
    LET d == SelectSeq(RefStripSuffix(RefTrim(str_or_empty(val))), LAMBDA c : c \in Digits)
    IN  IF d = <<>> THEN <<>> ELSE RefPad(d)

NormalizeTests ==
    { << <<"0", "0", "5", "0", "1">>, <<"0", "0", "5", "0", "1">> >>,
      << <<"5", "0", "1">>,           <<"0", "0", "5", "0", "1">> >>,
      << <<"0", "5", "0", "1">>,      <<"0", "0", "5", "0", "1">> >>,
      << <<"5", "0", "1", ".", "0">>, <<"0", "0", "5", "0", "1">> >>,
      << <<>>,                        <<>> >> }

\* C25: normalize_zip equals the reference algorithm (strip the ".0"-style
\* suffix of a coerced number, delete every non-digit, empty if nothing
\* remains, left-pad with zeros to width 5) on every raw value, and maps
\* "00501", "501", "0501" and "501.0" to "00501" and "" to "".
C25_EqualsReference ==
    (call.fn = "normalize_zip" /\ call.pc # "call") =>
        /\ call.key = Reference(call.val)
        /\ \A t \in NormalizeTests :
                (~call.val.is_none /\ call.val.text = t[1]) => call.key = t[2]

\* the cell "501.0" has been normalised to "00501"
C25_Witness ==
    /\ call.fn = "normalize_zip"
    /\ call.pc = "returned"
    /\ ~call.val.is_none
    /\ call.val.text = <<"5", "0", "1", ".", "0">>
    /\ call.key = <<"0", "0", "5", "0", "1">>

\* C26: every non-empty key returned by normalize_zip is exactly 5
\* characters long, all digits, for every raw value, also for values with
\* more than 5 digits.
C26_KeyIsFixedWidth ==
    (call.fn = "normalize_zip" /\ call.pc # "call" /\ call.key # <<>>) =>
        /\ Len(call.key) = 5
        /\ \A i \in DOMAIN call.key : call.key[i] \in Digits

C28_CooldownAfterThreeTimeouts ==
    call.fn = "process_zip" => call.run < 3

\* C29: the fedex Poller returns an implicit Success (status OK with an empty
\* map_src) only if the body of the page differed, on some look, from what
\* it was at submission; a page that never changes and shows no marker ends
\* in TIMEOUT.
C29_ImplicitSuccessNeedsChange ==
    (/\ call.fn = "wait_fedex_result_or_terminal"
     /\ call.pc = "returned"
     /\ call.state.status = STATUS_OK
     /\ call.state.map_src = "") => call.differed

\* C30: on every look of the fedex Poller, the quick checks and each loop
\* iteration, a success marker (PDF map link or hidden map URL) decides
\* first, also when a no-data marker is present; the no-data marker decides
\* only when no success marker is present; the change of the body is
\* consulted only when neither is present, and never by the quick checks.
C30_MarkerOrder ==
    call.fn = "wait_fedex_result_or_terminal" =>
        LET success == call.look.pdf \/ call.look.hidden
            implicit == call.state.status = STATUS_OK /\ call.state.map_src = ""
        IN  /\ (call.pc = "loop" /\ call.n > 0) => ~success /\ ~call.look.no_data
            /\ (call.pc = "returned" /\ success) =>
                    call.state.status = STATUS_OK /\ call.state.map_src # ""
            /\ (call.pc = "returned" /\ call.look.no_data /\ ~success) =>
                    call.state.status = STATUS_NO_DATA
            /\ (call.pc = "returned" /\ implicit) =>
                    ~success /\ ~call.look.no_data /\ call.n > 0

\* the Poller has returned Success on a look that showed a success marker
\* and a no-data marker together, in the loop
C30_Witness ==
    /\ call.fn = "wait_fedex_result_or_terminal"
    /\ call.pc = "returned"
    /\ call.n > 0
    /\ call.look.pdf
    /\ call.look.no_data
    /\ call.state.status = STATUS_OK

\* C31: each Poller call terminates with exactly one of Success, NoData or
\* Timeout.  The look before the loop is always taken, whatever the deadline;
\* TIMEOUT is returned only by the deadline, never from a look that showed a
\* marker or (in the loop) a change; the call always returns.
C31_PollerTerminates ==
    /\ [](call.fn = "wait_fedex_result_or_terminal" =>
            /\ (call.pc = "loop" /\ call.n > 0) =>
                    ~call.look.pdf /\ ~call.look.hidden /\ ~call.look.no_data
                    /\ ~FedexLook(call.look, call.prev_marker).changed
            /\ call.pc = "returned" =>
                    /\ call.state.status \in {STATUS_OK, STATUS_NO_DATA, STATUS_TIMEOUT}
                    /\ call.state.status = STATUS_TIMEOUT =>
                            /\ ~call.look.pdf /\ ~call.look.hidden /\ ~call.look.no_data
                            /\ call.n > 0 => ~FedexLook(call.look, call.prev_marker).changed)
    /\ [](call.fn = "wait_for_result_or_terminal_state" =>
            /\ (call.pc = "loop" /\ call.n > 0) => ~call.look.no_info /\ ~call.look.changed
            /\ call.pc = "returned" =>
                    /\ call.status \in {"OK", "NO_DATA", "TIMEOUT"}
                    /\ call.status = "TIMEOUT" =>
                            /\ ~call.look.no_info
                            /\ call.n > 0 => ~call.look.changed)
    /\ [][call.pc \in {"quick", "early"} =>
            /\ call'.pc \in {"loop", "returned"}
            /\ call'.pc = "returned" =>
                    IF call.fn = "wait_for_result_or_terminal_state"
                    THEN call'.status = "NO_DATA"
                    ELSE call'.state.status \in {STATUS_OK, STATUS_NO_DATA}]_vars
    /\ <>(call.pc = "returned")

\* the ups Poller has returned TIMEOUT after a full run of looks without
\* marker or change
C31_Witness ==
    /\ call.fn = "wait_for_result_or_terminal_state"
    /\ call.pc = "returned"
    /\ call.n = MaxSamples
    /\ call.status = "TIMEOUT"

\* C32: in fedex_scraper, under every interleaving of the workers, each time
\* processed reaches a positive multiple of PAUSE_EVERY a pause is taken by a
\* worker: once the workers are done and processed has passed the multiple,
\* at least one pause has been taken.
C32_NoPauseMissed ==
    (/\ call.fn = "pause_if_needed"
     /\ stats.processed >= PAUSE_EVERY
     /\ \A w \in Workers : fx[w].pc = "idle") => call.pauses >= 1

\* C33: every read-modify-write of the ups_priority job counters happens
\* under one lock, so no increment made by record_processed is lost to a
\* concurrent reset in maybe_maintenance (while no thread is inside either
\* function, processed_since_maintenance is the number of keys recorded since
\* the last maintenance was decided), and at least MAINTENANCE_EVERY keys are
\* recorded between two consecutive maintenance pauses.
C33_CountersUnderOneLock ==
    call.fn = "maybe_maintenance" =>
        /\ ~call.short
        /\ (\A w \in Workers : wk[w].pc \notin {"reset", "store"}) =>
                processed_since_maintenance = call.since

\* the pool threads that are running process_zip
Busy == {w \in Workers : wk[w].pc # "idle" \/ fx[w].pc # "idle"}

C35_JobCounters ==
    script = "ups" =>
        /\ 0 <= stats.skipped
        /\ stats.skipped <= stats.processed
        /\ stats.processed <= stats.total
        /\ (rb.pc = "pool" /\ work_queue = rb.zips /\ Busy = {}) =>
                (stats.processed = 0 /\ stats.skipped = 0 /\ results_rows = <<>>)
        /\ rb.pc = "returned" =>
                (stats.processed = stats.total /\ stats.total = Len(results_rows))

\* run_batch has returned after a run in which a key was skipped and a key
\* was not
C35_Witness ==
    /\ script = "ups"
    /\ rb.pc = "returned"
    /\ stats.skipped = 1
    /\ stats.processed = MaxZips

\* C38: a Record of ups_priority.process_zip with STATUS "OK" has empty
\* ERROR_STEP, ERROR_TYPE and ERROR_MESSAGE, also when the successful pass
\* came after failed passes for the same key.
C38_OkRowHasNoError ==
    script = "ups" =>
        \A i \in 1..Len(results_rows) :
            results_rows[i].STATUS = "OK" =>
                /\ results_rows[i].ERROR_STEP = ""
                /\ results_rows[i].ERROR_TYPE = ""
                /\ results_rows[i].ERROR_MESSAGE = ""

\* C37: the global session_version never decreases and changes only by +1
\* steps made by the thread that holds session_version_lock, and the version
\* a thread has cached for its session never exceeds the global
\* session_version, under every interleaving of bump_session_version and
\* get_session.
C37_SessionVersionMonotonic ==
    /\ [](call.fn = "get_session" =>
            \A w \in Workers : call.th[w].sess_version <= session_version)
    /\ [][(call.fn = "get_session" /\ session_version' # session_version) =>
            /\ session_version' = session_version + 1
            /\ call.lock # 0
            /\ call.th[call.lock].pc = "store"
            /\ call'.th[call.lock].pc = "idle"]_vars

\* a thread holds a session cached at version 1 while the global version has
\* moved on, and another thread holds the lock
C37_Witness ==
    /\ call.fn = "get_session"
    /\ session_version = 2
    /\ call.lock # 0
    /\ \E w \in Workers : call.th[w].sess_version = 1

\* C36: ensure_header_csv on an existing file whose first row differs from
\* the expected columns leaves a file whose first row is the expected columns,
\* followed by every prior non-empty row in its original order; on a file
\* whose first row is the expected columns it leaves the file unchanged, and a
\* second call changes nothing.
C36_HeaderRebuildKeepsRows ==
    (call.fn = "ensure_header_csv" /\ call.pc # "start") =>
        /\ (call.before.exists /\ call.before.rows # <<>>) =>
                IF Head(call.before.rows) = Cols
                THEN call.once = call.before
                ELSE call.once.rows =
                        <<Cols>> \o SelectSeq(call.before.rows, LAMBDA r : r # <<>>)
        /\ call.pc = "twice" => call.file = call.once

\* C39: in run_option_two_concurrent.main fetch_and_parse never raises and
\* returns its input zip first, so after pass 1 results has an entry for
\* every input zip whatever order the futures complete in, and pass 2 appends
\* one row per input entry in input order, each with exactly the max_reps
\* column groups computed in pass 1.
C39_OneRowPerInputEntry ==
    (script = "option_two" /\ call.fn = "main") =>
        /\ call.pc # "raised"
        /\ DOMAIN call.results = {call.zips[j] : j \in DOMAIN call.zips \ call.pending}
        /\ \A z \in DOMAIN call.results : Len(call.results[z].reps) <= call.max_reps
        /\ call.pc # "pass1" =>
            /\ DOMAIN call.results = Range(call.zips)
            /\ Len(call.rows) = Len(call.zips)
            /\ \A k \in DOMAIN call.rows :
                    /\ call.rows[k].ZIPCODES = call.zips[k]
                    /\ Len(call.rows[k].groups) = call.max_reps
            /\ \A p \in AltPaths : \A n \in DOMAIN fs[p].rows :
                    \E k \in 1..(call.k - 1) : fs[p].rows[n] = call.rows[k]
            /\ (\A p \in AltPaths : fs[p].rows = <<>>) =>
                    fs[OutputArg].rows = call.old \o SubSeq(call.rows, 1, Len(fs[OutputArg].rows) - Len(call.old))
            /\ call.pc = "done" =>
                    Len(fs[OutputArg].rows) + Cardinality({x \in AltPaths \X (1..MaxZips) :
                                                     x[2] <= Len(fs[x[1]].rows)})
                        = Len(call.old) + Len(call.zips)

\* main is done with an input that names one key twice; the two futures gave
\* different results and the rows have two column groups
C39_Witness ==
    /\ script = "option_two"
    /\ call.fn = "main"
    /\ call.pc = "done"
    /\ Len(call.zips) = 2
    /\ call.zips[1] = call.zips[2]
    /\ call.max_reps = 2
    /\ Len(call.results[call.zips[1]].reps) = 1
    /\ Len(fs[OutputArg].rows) = Len(call.old) + 2

====
